---- MODULE Spec2Model ----
(***************************************************************************)
(* A model of the daily push scheduler (app/push.py and the older copy in  *)
(* main.py) and of the conversation-thread lifecycle (app/services.py) of  *)
(* the chat relay.                                                         *)
(* The webhook handlers (app/routes.py) with their background tasks and   *)
(* the prediction queries (app/ai.py) are modelled further down.          *)
(*                                                                         *)
(* Time is counted in scheduler minutes.  The hour of the model has        *)
(* MinutesPerHour minutes; the slot test (hour == 11 / 20, minute == 0),   *)
(* the 60-second sleep (one minute) and the local date keep the shape they *)
(* have in the code.                                                       *)
(***************************************************************************)
EXTENDS Integers, Sequences, FiniteSets, TLC

\* ------------------------------------------------------------------ bounds
MinutesPerHour == 2
MaxProc == 1
EndSlack == 2
MainHours == 3
ThreadDay == 2
MaxClock == 3
MaxCalls == 3
MaxDeliveries == 2
MaxReplyLen == 7000
MaxRows == 3
MaxKick == 2
MaxFnDays == 2
MaxTagLen == 4
MaxUsers == 3

\* ------------------------------------------------------- program constants
HoursPerDay == 24
YesterdayHour == 11
PickHour == 20
SleepMinutes == 1
ThreadTtlTelegram == 1
ThreadTtlChatwoot == 2
ThreadMaxAgeDays == 1
ChunkLimit == 3000
ChunkOver == 3500
MaxTags == 6

MinutesPerDay == HoursPerDay * MinutesPerHour

\* the scheduler starts at 00:00 UTC of day 1 and is observed until shortly
\* after the end of day 1 (UTC)
StartTime == MinutesPerDay
EndTime == 2 * MinutesPerDay + EndSlack

Insts == {1, 2}
Users == {1, 2}
Countries == {"PH", "US"}
OffsetChoices == {0, 8}
PushTypes == {"yesterday", "pick"}

Workers == {1, 2}
Platforms == {"telegram", "chatwoot"}
Pairs == {<<"telegram", "7">>, <<"chatwoot", "7">>}
None == 0

\* users table: id -> (chatroom_id, country); both columns non-null
UserCountry(u) == IF u = 1 THEN "PH" ELSE "US"
UserChatroom(u) == u

VARIABLES
    now,        \* wall clock, in minutes
    offset,     \* the offsets file: country -> hours
    pc,         \* per scheduler instance: position in run_daily_push_scheduler
    now_utc,    \* per instance: now_utc read at the start of the tick
    wake,       \* per instance: when the 60-second sleep ends
    todo,       \* per instance: rows of `users` the for loop has not visited
    cur,        \* per instance: the row being processed
    push_log,   \* the ledger table: <<user_id, push_date, push_type>> -> rows
    claimTrue,  \* history: key -> number of claims that returned true
    computed,   \* history: key -> number of digest computations started
    sent,       \* history: key -> number of digests handed to the sink
    out,        \* per instance and user: how this tick's slot went so far
    storeErr,   \* history: some store operation of the scheduler has raised
    endTime     \* the end of the observation window

pushVars == <<now, offset, pc, now_utc, wake, todo, cur, push_log,
              claimTrue, computed, sent, out, storeErr, endTime>>

VARIABLES
    clock,          \* wall clock of the thread model
    agent_url,      \* whether an agent URL is configured
    agent_threads,  \* the agent_threads table, in id order
    remote,         \* the remote agent's threads: id -> the pair it was made for
    tpc,            \* per worker: position in forward_*_to_agent
    wpair,          \* per worker: (platform, chatroom_id) of its message
    fnow,           \* per worker: `now` read by find_active_thread
    tid,            \* per worker: tid / new_tid of ensure_agent_thread
    call,           \* per worker: what its current or last call did (history)
    ncalls,         \* history: number of forwarding tasks started
    overlapped,     \* history: two forwarding tasks have run concurrently
    retired         \* history: ids whose expiry an ensure call has observed

threadVars == <<clock, agent_url, agent_threads, remote, tpc, wpair, fnow, tid,
                call, ncalls, overlapped, retired>>

VARIABLES
    hreq,       \* the webhook delivery being handled
    tasks,      \* its background tasks, in the order of add_task
    eff,        \* what the delivery has done so far
    ndeliv,     \* deliveries so far
    chunks      \* the texts passed to send_chatwoot_reply for an /ai_pick
                \* result or an agent reply, as [from, to] character ranges

hookVars == <<hreq, tasks, eff, ndeliv, chunks>>

VARIABLES
    ai_eval,    \* the recommended evaluation records joined with their
                \* fixtures: predict_winner, result, fixture_date
    apc,        \* position in the prediction query being answered
    ares        \* what the prediction query has computed

aiVars == <<ai_eval, apc, ares>>

VARIABLES
    fin,        \* the function called last and its arguments
    fout        \* what it returned

fnVars == <<fin, fout>>

VARIABLES
    users,      \* the users table: rows of external_id, username,
                \* chatroom_id, country, in the order of insertion
    uop         \* the last statement run against it

userVars == <<users, uop>>

VARIABLES
    recent      \* of the users rows that share one chat handle, the one
                \* whose updated_at is the latest

chatVars == <<recent>>

\* what the actions of each part leave alone
offPush == <<threadVars, hookVars, aiVars, fnVars, userVars, chatVars>>
offThread == <<pushVars, hookVars, aiVars, fnVars, userVars, chatVars>>
offHook == <<pushVars, aiVars, fnVars, userVars, chatVars>>
offAi == <<pushVars, threadVars, hookVars, fnVars, userVars, chatVars>>
offFn == <<pushVars, threadVars, hookVars, aiVars, userVars, chatVars>>
offUsers == <<pushVars, threadVars, hookVars, aiVars, fnVars, chatVars>>

vars == <<pushVars, threadVars, hookVars, aiVars, fnVars, userVars,
         chatVars>>

\* ------------------------------------------------------------ local time
\* local_now = now_utc + timedelta(hours=offset)
LocalNow(t, c) == t + offset[c] * MinutesPerHour
LocalHour(t, c) == (LocalNow(t, c) \div MinutesPerHour) % HoursPerDay
LocalMinute(t, c) == LocalNow(t, c) % MinutesPerHour
\* push_date.date()
LocalDate(t, c) == LocalNow(t, c) \div MinutesPerDay

IsSlot(t, c, h) == LocalHour(t, c) = h /\ LocalMinute(t, c) = 0

Key(u, t, ty) == <<u, LocalDate(t, UserCountry(u)), ty>>

AllDates == 0 .. 4
AllKeys == Users \X AllDates \X PushTypes

Bump(f, k) == [f EXCEPT ![k] = @ + 1]

\* ---------------------------------------------------------------- ledger
\* an insert that keeps the newest row only
ClaimInsertReplacing(log, k, raised) ==
    IF raised \/ log[k] > 0 THEN log
    ELSE [j \in DOMAIN log |-> IF j = k THEN 1 ELSE 0]

\* INSERT ... ON CONFLICT (user_id, push_date, push_type) DO NOTHING on the
\* unique index uniq_push_log: the new ledger
ClaimInsert(log, k, raised) ==
    IF raised \/ log[k] > 0 THEN log ELSE [log EXCEPT ![k] = @ + 1]

\* a claim that answers true without looking at the conflict
ClaimResultBlind(log, k, raised) == ~raised

\* _claim_push: true iff the insert returned a row
ClaimResult(log, k, raised) == (~raised) /\ (log[k] = 0)

\* _has_pushed: a read failure answers False
HasPushed(log, k, raised) == (~raised) /\ (log[k] > 0)

\* _list_users_for_push: rows ordered by chatroom_id; [] on a store error
ListUsers(raised) == IF raised THEN <<>> ELSE <<1, 2>>

NoOut == [u \in Users |-> "none"]

\* the record kept of a forwarding task
NoCall == [find |-> "none", live |-> FALSE, createOut |-> "none",
           inserted |-> 0, touchErr |-> FALSE, err |-> FALSE,
           expBefore |-> 0, expAfter |-> 0, ret |-> None, post |-> "none",
           rows0 |-> 0]

\* no result: no prediction query has been called
NoRes == [op |-> "none", start |-> 0, end |-> 0, rows |-> <<>>, acc |-> 0,
          text |-> "none"]

\* no prediction query is made while the other parts are observed
AiIdle ==
    /\ ai_eval = <<>>
    /\ apc = "idle"
    /\ ares = NoRes

\* no function has been called
NoCallFn == [fn |-> "none", args |-> <<>>]

\* no function is called while the other parts are observed
FnIdle ==
    /\ fin = NoCallFn
    /\ fout = <<>>

\* no statement has been run against the users table
NoUop == [op |-> "none", body |-> <<>>, result |-> "none"]

\* the users table is left alone while the other parts are observed
UsersIdle ==
    /\ users = <<>>
    /\ uop = NoUop

\* no message reorders the rows of a shared chat while the other parts are
\* observed
ChatIdle == recent = 1

\* no delivery: the webhooks have not been called
NoReq == [platform |-> "none", kind |-> "none", mtype |-> "none",
          text |-> <<>>, ids |-> FALSE, chat |-> FALSE, sender |-> FALSE]

\* the effects of a delivery, none yet: chat_messages rows written, users
\* upserts, country writes, messages sent on each platform, escalations,
\* the prediction queries and sends made by the handler itself, and the
\* placeholders and reply parts sent by the forwarding task
NoEff == [stored |-> 0, user |-> 0, country |-> 0, cw |-> 0, tg |-> 0,
          lark |-> 0, storeTasks |-> 0, forwards |-> 0, queries |-> 0,
          inline |-> 0, wait |-> 0, replies |-> 0]

\* no webhook is delivered while the scheduler or the threads are observed
HooksIdle ==
    /\ hreq = NoReq
    /\ tasks = <<>>
    /\ eff = NoEff
    /\ ndeliv = 0
    /\ chunks = <<>>

\* no forwarding task runs while the scheduler is observed
ThreadsIdle ==
    /\ clock = 0
    /\ agent_url = TRUE
    /\ agent_threads = <<>>
    /\ remote = <<>>
    /\ tpc = [w \in Workers |-> "idle"]
    /\ wpair = [w \in Workers |-> <<"telegram", "7">>]
    /\ fnow = [w \in Workers |-> 0]
    /\ tid = [w \in Workers |-> None]
    /\ call = [w \in Workers |-> NoCall]
    /\ ncalls = 0
    /\ overlapped = FALSE
    /\ retired = {}

SchedInit(start, end) ==
    /\ ThreadsIdle
    /\ AiIdle
    /\ HooksIdle
    /\ FnIdle
    /\ UsersIdle
    /\ ChatIdle
    /\ now = start
    /\ endTime = end
    /\ offset \in [Countries -> OffsetChoices]
    /\ pc = [i \in Insts |-> "sleep"]
    /\ now_utc = [i \in Insts |-> start]
    /\ wake = [i \in Insts |-> start]
    /\ todo = [i \in Insts |-> <<>>]
    /\ cur = [i \in Insts |-> 1]
    /\ push_log = [k \in AllKeys |-> 0]
    /\ claimTrue = [k \in AllKeys |-> 0]
    /\ computed = [k \in AllKeys |-> 0]
    /\ sent = [k \in AllKeys |-> 0]
    /\ out = [i \in Insts |-> NoOut]
    /\ storeErr = FALSE

\* ------------------------------------------------- scheduler: shared steps
\* the clock moves while instances sleep or work; a tick's processing lasts
\* at most MaxProc minutes and a sleeper wakes as soon as its sleep is over
Advance ==
    /\ UNCHANGED offPush
    /\ now < endTime
    /\ \A i \in Insts : pc[i] = "sleep" => wake[i] > now
    /\ \A i \in Insts : pc[i] # "sleep" => now - now_utc[i] < MaxProc
    /\ now' = now + 1
    /\ UNCHANGED <<offset, pc, now_utc, wake, todo, cur, push_log,
                   claimTrue, computed, sent, out, storeErr, endTime>>

\* while True: now_utc = datetime.now(timezone.utc); users = _list_users_for_push()
Tick(i) ==
    /\ UNCHANGED offPush
    /\ pc[i] = "sleep"
    /\ wake[i] <= now
    /\ \E raised \in BOOLEAN :
         /\ todo' = [todo EXCEPT ![i] = ListUsers(raised)]
         /\ storeErr' = (storeErr \/ raised)
    /\ now_utc' = [now_utc EXCEPT ![i] = now]
    /\ pc' = [pc EXCEPT ![i] = "loop"]
    /\ out' = [out EXCEPT ![i] = NoOut]
    /\ UNCHANGED <<now, offset, wake, cur, push_log,
                   claimTrue, computed, sent, endTime>>

\* where the loop body goes after the 11:00 block: the 20:00 test
AfterYesterday(i, u, claimPc) ==
    IF IsSlot(now_utc[i], UserCountry(u), PickHour) THEN claimPc ELSE "loop"

\* for row in users: ... the 11:00 test
NextUser(i, claimY, claimP) ==
    /\ UNCHANGED offPush
    /\ pc[i] = "loop"
    /\ todo[i] # <<>>
    /\ LET u == Head(todo[i]) IN
         /\ cur' = [cur EXCEPT ![i] = u]
         /\ pc' = [pc EXCEPT ![i] =
                     IF IsSlot(now_utc[i], UserCountry(u), YesterdayHour)
                     THEN claimY ELSE AfterYesterday(i, u, claimP)]
    /\ todo' = [todo EXCEPT ![i] = Tail(@)]
    /\ UNCHANGED <<now, offset, now_utc, wake, push_log,
                   claimTrue, computed, sent, out, storeErr, endTime>>

\* await asyncio.sleep(60)
Sleep(i) ==
    /\ UNCHANGED offPush
    /\ pc[i] = "loop"
    /\ todo[i] = <<>>
    /\ pc' = [pc EXCEPT ![i] = "sleep"]
    /\ wake' = [wake EXCEPT ![i] = now + SleepMinutes]
    /\ UNCHANGED <<now, offset, now_utc, todo, cur, push_log,
                   claimTrue, computed, sent, out, storeErr, endTime>>

Row(i) == cur[i]
KeyOf(i, ty) == Key(Row(i), now_utc[i], ty)

\* ai_yesterday_text_for_country catches its store errors and always returns
\* a text; ai_pick_text_for_country lets a store error escape, and the
\* except of _push_pick then skips the send.  Number of send calls:
SendsYesterday(raised) == 1
SendsPick(raised) == IF raised THEN 0 ELSE 1

\* ---------------------------------------------- app/push.py: claim + push
\* a loop body that pushes whatever the claim answered
AfterClaimAlways(ok, pushPc, elsePc) == pushPc

\* if _claim_push(...): _push_...(row)
AfterClaim(ok, pushPc, elsePc) == IF ok THEN pushPc ELSE elsePc

\* if local_now.hour == 11 and local_now.minute == 0:
\*     if _claim_push(user_id, local_now, "yesterday"):
ClaimStep(i, ty, here, pushPc, elsePc) ==
    /\ UNCHANGED offPush
    /\ pc[i] = here
    /\ \E raised \in BOOLEAN :
         LET k == KeyOf(i, ty)
             ok == ClaimResult(push_log, k, raised) IN
         /\ push_log' = ClaimInsert(push_log, k, raised)
         /\ claimTrue' = IF ok THEN Bump(claimTrue, k) ELSE claimTrue
         /\ out' = [out EXCEPT ![i][Row(i)] =
                      IF raised THEN "raised" ELSE IF ok THEN "true" ELSE "false"]
         /\ pc' = [pc EXCEPT ![i] = AfterClaim(ok, pushPc, elsePc)]
         /\ storeErr' = (storeErr \/ raised)
    /\ UNCHANGED <<now, offset, now_utc, wake, todo, cur, computed, sent,
                   endTime>>

ClaimYesterday(i) ==
    ClaimStep(i, "yesterday", "y_claim", "y_push",
              AfterYesterday(i, Row(i), "p_claim"))

ClaimPick(i) == ClaimStep(i, "pick", "p_claim", "p_push", "loop")

\* a push whose exception leaves the loop
AfterPushEscaping(raised, nextPc) == IF raised THEN "dead" ELSE nextPc

\* except Exception: logger.exception("Push ... error"): the loop body goes on
AfterPush(raised, nextPc) == nextPc

\* _push_yesterday(row) / _push_pick(row)
PushStep(i, ty, here, nextPc) ==
    /\ UNCHANGED offPush
    /\ pc[i] = here
    /\ \E raised \in BOOLEAN :
         LET k == KeyOf(i, ty)
             n == IF ty = "yesterday" THEN SendsYesterday(raised)
                                      ELSE SendsPick(raised) IN
         /\ computed' = Bump(computed, k)
         /\ sent' = [sent EXCEPT ![k] = @ + n]
         /\ out' = [out EXCEPT ![i][Row(i)] = IF n > 0 THEN "sent" ELSE "failed"]
         /\ storeErr' = (storeErr \/ raised)
         /\ pc' = [pc EXCEPT ![i] = AfterPush(raised, nextPc)]
    /\ UNCHANGED <<now, offset, now_utc, wake, todo, cur, push_log,
                   claimTrue, endTime>>

PushYesterday(i) ==
    PushStep(i, "yesterday", "y_push", AfterYesterday(i, Row(i), "p_claim"))

PushPick(i) == PushStep(i, "pick", "p_push", "loop")

NextUserApp(i) == NextUser(i, "y_claim", "p_claim")

PushNext ==
    \/ Advance
    \/ \E i \in Insts : Tick(i)
    \/ \E i \in Insts : NextUserApp(i)
    \/ \E i \in Insts : ClaimYesterday(i)
    \/ \E i \in Insts : PushYesterday(i)
    \/ \E i \in Insts : ClaimPick(i)
    \/ \E i \in Insts : PushPick(i)
    \/ \E i \in Insts : Sleep(i)

PushInit == SchedInit(StartTime, EndTime)

SpecPush == PushInit /\ [][PushNext]_vars

\* the steps of one scheduler instance
InstStep(i) ==
    \/ Tick(i)
    \/ NextUserApp(i)
    \/ ClaimYesterday(i)
    \/ PushYesterday(i)
    \/ ClaimPick(i)
    \/ PushPick(i)
    \/ Sleep(i)

\* the event loop runs every instance that can run, and time passes; the
\* scheduler is observed for MainHours hours from 10:00 UTC of day 1
PushLiveInit ==
    SchedInit(MinutesPerDay + 10 * MinutesPerHour,
              MinutesPerDay + (10 + MainHours) * MinutesPerHour)

SpecPushLive ==
    /\ PushLiveInit
    /\ [][PushNext]_vars
    /\ WF_vars(Advance)
    /\ \A i \in Insts : WF_vars(InstStep(i))

\* -------------------------------- app/push.py: rows sharing a chat handle
\* Both rows of users carry the same chatroom_id and a country.
\* _list_users_for_push: DISTINCT ON (chatroom_id) ... ORDER BY chatroom_id,
\* updated_at DESC, id DESC keeps, for the chat, the row written last
ListUsersShared(raised, r) == IF raised THEN <<>> ELSE <<r>>

TickShared(i) ==
    /\ UNCHANGED offPush
    /\ pc[i] = "sleep"
    /\ wake[i] <= now
    /\ \E raised \in BOOLEAN :
         /\ todo' = [todo EXCEPT ![i] = ListUsersShared(raised, recent)]
         /\ storeErr' = (storeErr \/ raised)
    /\ now_utc' = [now_utc EXCEPT ![i] = now]
    /\ pc' = [pc EXCEPT ![i] = "loop"]
    /\ out' = [out EXCEPT ![i] = NoOut]
    /\ UNCHANGED <<now, offset, wake, cur, push_log,
                   claimTrue, computed, sent, endTime>>

\* store_message for a message of the other sender in the chat: ON CONFLICT
\* (external_id) DO UPDATE SET ..., updated_at = NOW()
StoreMessageShared(u) ==
    /\ u # recent
    /\ recent' = u
    /\ UNCHANGED <<pushVars, threadVars, hookVars, aiVars, fnVars, userVars>>

SharedNext ==
    \/ Advance
    \/ \E i \in Insts : TickShared(i)
    \/ \E i \in Insts : NextUserApp(i)
    \/ \E i \in Insts : ClaimYesterday(i)
    \/ \E i \in Insts : PushYesterday(i)
    \/ \E i \in Insts : ClaimPick(i)
    \/ \E i \in Insts : PushPick(i)
    \/ \E i \in Insts : Sleep(i)
    \/ \E u \in Users : StoreMessageShared(u)

SpecShared == PushLiveInit /\ [][SharedNext]_vars

\* ------------------------------------- main.py: read, push, then record
\* if not _has_pushed(user_id, local_now, ty):
HasStep(i, ty, here, pushPc, elsePc) ==
    /\ UNCHANGED offPush
    /\ pc[i] = here
    /\ \E raised \in BOOLEAN :
         LET has == HasPushed(push_log, KeyOf(i, ty), raised) IN
         /\ out' = [out EXCEPT ![i][Row(i)] =
                      IF raised THEN "raised" ELSE IF has THEN "false" ELSE "true"]
         /\ pc' = [pc EXCEPT ![i] = IF has THEN elsePc ELSE pushPc]
         /\ storeErr' = (storeErr \/ raised)
    /\ UNCHANGED <<now, offset, now_utc, wake, todo, cur, push_log,
                   claimTrue, computed, sent, endTime>>

\* _mark_pushed(user_id, local_now, ty)
MarkStep(i, ty, here, nextPc) ==
    /\ UNCHANGED offPush
    /\ pc[i] = here
    /\ \E raised \in BOOLEAN :
         push_log' = ClaimInsert(push_log, KeyOf(i, ty), raised)
    /\ pc' = [pc EXCEPT ![i] = nextPc]
    /\ UNCHANGED <<now, offset, now_utc, wake, todo, cur,
                   claimTrue, computed, sent, out, storeErr, endTime>>

MainHasYesterday(i) ==
    HasStep(i, "yesterday", "y_has", "y_send", AfterYesterday(i, Row(i), "p_has"))
MainPushYesterday(i) == PushStep(i, "yesterday", "y_send", "y_mark")
MainMarkYesterday(i) ==
    MarkStep(i, "yesterday", "y_mark", AfterYesterday(i, Row(i), "p_has"))
MainHasPick(i) == HasStep(i, "pick", "p_has", "p_send", "loop")
MainPushPick(i) == PushStep(i, "pick", "p_send", "p_mark")
MainMarkPick(i) == MarkStep(i, "pick", "p_mark", "loop")

NextUserMain(i) == NextUser(i, "y_has", "p_has")

MainNext ==
    \/ Advance
    \/ \E i \in Insts : Tick(i)
    \/ \E i \in Insts : NextUserMain(i)
    \/ \E i \in Insts : MainHasYesterday(i)
    \/ \E i \in Insts : MainPushYesterday(i)
    \/ \E i \in Insts : MainMarkYesterday(i)
    \/ \E i \in Insts : MainHasPick(i)
    \/ \E i \in Insts : MainPushPick(i)
    \/ \E i \in Insts : MainMarkPick(i)
    \/ \E i \in Insts : Sleep(i)

\* the older scheduler is observed from 10:00 UTC of day 1 for MainHours hours:
\* the 11:00 slot of offset 0 and the 20:00 slot of offset 8 fall in it
MainStart == MinutesPerDay + 10 * MinutesPerHour
MainInit == SchedInit(MainStart, MainStart + MainHours * MinutesPerHour)

SpecMain == MainInit /\ [][MainNext]_vars

\* =============================================== conversation threads
\* app/services.py: find_active_thread, _touch_thread, _create_remote_thread,
\* ensure_agent_thread and the forward_*_to_agent tasks that call them.
\* The thread clock counts abstract units; a day has ThreadDay of them.


\* _get_thread_ttl_minutes
GetThreadTtl(platform) ==
    IF platform = "telegram" THEN ThreadTtlTelegram ELSE ThreadTtlChatwoot

\* (now - started_at).days
AgeDays(t, started_at) == (t - started_at) \div ThreadDay

\* a lookup by chat handle alone, whatever the platform
LatestActiveAnyPlatform(rows, pair) ==
    LET S == {n \in DOMAIN rows :
                 /\ rows[n].chatroom_id = pair[2]
                 /\ rows[n].status = "active"} IN
    IF S = {} THEN 0 ELSE CHOOSE n \in S : \A m \in S : m <= n

\* SELECT ... WHERE platform = %s AND chatroom_id = %s AND status = 'active'
\* ORDER BY id DESC LIMIT 1: the index of the row, 0 when there is none
LatestActive(rows, pair) ==
    LET S == {n \in DOMAIN rows :
                 /\ rows[n].platform = pair[1]
                 /\ rows[n].chatroom_id = pair[2]
                 /\ rows[n].status = "active"} IN
    IF S = {} THEN 0 ELSE CHOOSE n \in S : \A m \in S : m <= n

\* a probe without the maximum-age test
FindActiveNoMaxAge(rows, pair, t, raised) ==
    LET n == LatestActive(rows, pair) IN
    IF raised \/ n = 0 THEN None
    ELSE IF rows[n].expires_at > t THEN rows[n].agent_thread_id
    ELSE None

\* a probe that never finds a thread
FindActiveNever(rows, pair, t, raised) == None

\* find_active_thread: the remote id, or None
FindActive(rows, pair, t, raised) ==
    LET n == LatestActive(rows, pair) IN
    IF raised \/ n = 0 THEN None
    ELSE IF AgeDays(t, rows[n].started_at) >= ThreadMaxAgeDays THEN None
    ELSE IF rows[n].expires_at > t THEN rows[n].agent_thread_id
    ELSE None

\* a renewal that forgets the TTL: expires_at = now
TouchRowsNoTtl(rows, pair, id, t, raised) ==
    IF raised THEN rows
    ELSE [n \in DOMAIN rows |->
            IF /\ rows[n].platform = pair[1]
               /\ rows[n].chatroom_id = pair[2]
               /\ rows[n].agent_thread_id = id
               /\ rows[n].status = "active"
            THEN [rows[n] EXCEPT !.last_activity_at = t, !.expires_at = t]
            ELSE rows[n]]

\* _touch_thread: UPDATE ... SET last_activity_at = NOW(), expires_at = %s
\* WHERE platform, chatroom_id, agent_thread_id match AND status = 'active'
TouchRows(rows, pair, id, t, raised) ==
    IF raised THEN rows
    ELSE [n \in DOMAIN rows |->
            IF /\ rows[n].platform = pair[1]
               /\ rows[n].chatroom_id = pair[2]
               /\ rows[n].agent_thread_id = id
               /\ rows[n].status = "active"
            THEN [rows[n] EXCEPT !.last_activity_at = t,
                                 !.expires_at = t + GetThreadTtl(pair[1])]
            ELSE rows[n]]

\* INSERT INTO agent_threads (...) VALUES (%s, %s, %s, NOW(), NOW(), %s, 'active')
InsertRow(rows, pair, id, t, raised) ==
    IF raised THEN rows
    ELSE Append(rows, [platform |-> pair[1], chatroom_id |-> pair[2],
                       agent_thread_id |-> id, started_at |-> t,
                       last_activity_at |-> t,
                       expires_at |-> t + GetThreadTtl(pair[1]),
                       status |-> "active"])

\* _create_remote_thread: what the POST {base}/threads can come to
CreateOutcomes == {"ok", "non2xx", "no_id", "exception"}


RowsOf(rows, pair) ==
    {n \in DOMAIN rows : rows[n].platform = pair[1] /\ rows[n].chatroom_id = pair[2]}

RowOfId(rows, id) == CHOOSE n \in DOMAIN rows : rows[n].agent_thread_id = id

\* some row of the pair is active, unexpired and within the maximum age
LiveRowExists(rows, pair, t) ==
    \E n \in RowsOf(rows, pair) :
        /\ rows[n].status = "active"
        /\ rows[n].expires_at > t
        /\ AgeDays(t, rows[n].started_at) < ThreadMaxAgeDays

\* a probe that marks the rows it finds expired
FindRowsExpiring(rows, pair, t, raised) ==
    [n \in DOMAIN rows |->
        IF /\ ~raised
           /\ rows[n].platform = pair[1]
           /\ rows[n].chatroom_id = pair[2]
           /\ rows[n].expires_at <= t
        THEN [rows[n] EXCEPT !.status = "expired"]
        ELSE rows[n]]

\* the agent_threads rows after find_active_thread: its only statement is a
\* SELECT, and there is no commit
FindRows(rows, pair, t, raised) == rows

\* the chats the workers' messages come from: the same chat, or one chat on
\* each platform
PairAssignments ==
    {[w \in Workers |-> <<"chatwoot", "7">>],
     [w \in Workers |-> <<"telegram", "7">>],
     [w \in Workers |-> IF w = 1 THEN <<"chatwoot", "7">> ELSE <<"telegram", "7">>]}

\* the scheduler does not run while the forwarding tasks are observed
SchedIdle ==
    /\ now = StartTime
    /\ endTime = StartTime
    /\ offset = [c \in Countries |-> 0]
    /\ pc = [i \in Insts |-> "sleep"]
    /\ now_utc = [i \in Insts |-> StartTime]
    /\ wake = [i \in Insts |-> StartTime]
    /\ todo = [i \in Insts |-> <<>>]
    /\ cur = [i \in Insts |-> 1]
    /\ push_log = [k \in AllKeys |-> 0]
    /\ claimTrue = [k \in AllKeys |-> 0]
    /\ computed = [k \in AllKeys |-> 0]
    /\ sent = [k \in AllKeys |-> 0]
    /\ out = [i \in Insts |-> NoOut]
    /\ storeErr = FALSE

ThreadInit ==
    /\ SchedIdle
    /\ AiIdle
    /\ HooksIdle
    /\ FnIdle
    /\ UsersIdle
    /\ ChatIdle
    /\ clock = 0
    /\ agent_url \in BOOLEAN
    /\ agent_threads = <<>>
    /\ remote = <<>>
    /\ tpc = [w \in Workers |-> "idle"]
    /\ wpair \in PairAssignments
    /\ fnow = [w \in Workers |-> 0]
    /\ tid = [w \in Workers |-> None]
    /\ call = [w \in Workers |-> NoCall]
    /\ ncalls = 0
    /\ overlapped = FALSE
    /\ retired = {}

\* time passes
ClockTick ==
    /\ clock < MaxClock
    /\ clock' = clock + 1
    /\ UNCHANGED <<agent_url, agent_threads, remote, tpc, wpair, fnow, tid,
                   call, ncalls, overlapped, retired>>
    /\ UNCHANGED offThread

\* a webhook hands a free-form message to forward_*_to_agent, which sends
\* the placeholder and builds the payload
StartForward(w) ==
    /\ tpc[w] = "idle"
    /\ ncalls < MaxCalls
    /\ (ncalls = 0) => (w = 1)      \* the workers are interchangeable
    /\ call' = [call EXCEPT ![w] =
                  [NoCall EXCEPT !.rows0 = Cardinality(RowsOf(agent_threads, wpair[w]))]]
    /\ ncalls' = ncalls + 1
    /\ overlapped' = (overlapped \/ \E v \in Workers : v # w /\ tpc[v] # "idle")
    /\ tpc' = [tpc EXCEPT ![w] = "find"]
    /\ tid' = [tid EXCEPT ![w] = None]
    /\ UNCHANGED <<clock, agent_url, agent_threads, remote, wpair, fnow,
                   retired>>
    /\ UNCHANGED offThread

\* the rows of the pair whose expires_at has passed
Elapsed(rows, pair, t) ==
    {rows[n].agent_thread_id : n \in {m \in RowsOf(rows, pair) : rows[m].expires_at <= t}}

\* ensure_agent_thread: tid = find_active_thread(platform, chatroom_id)
Find(w) ==
    /\ tpc[w] = "find"
    /\ \E raised \in BOOLEAN :
         LET t == FindActive(agent_threads, wpair[w], clock, raised) IN
         /\ tid' = [tid EXCEPT ![w] = t]
         /\ call' = [call EXCEPT
                ![w].find = IF raised THEN "raised"
                            ELSE IF t = None THEN "absent" ELSE "found",
                ![w].live = LiveRowExists(agent_threads, wpair[w], clock),
                ![w].err = raised,
                ![w].expBefore = IF t = None THEN 0
                    ELSE agent_threads[RowOfId(agent_threads, t)].expires_at]
         /\ tpc' = [tpc EXCEPT ![w] = IF t # None THEN "touch" ELSE "create"]
         /\ agent_threads' = FindRows(agent_threads, wpair[w], clock, raised)
    /\ fnow' = [fnow EXCEPT ![w] = clock]
    /\ retired' = retired \cup Elapsed(agent_threads, wpair[w], clock)
    /\ UNCHANGED <<clock, agent_url, remote, wpair, ncalls, overlapped>>
    /\ UNCHANGED offThread

\* a forwarding task that gives up when there is no thread
AfterEnsureAbort(t) == IF t = None THEN "idle" ELSE "post"

\* forward_*_to_agent after ensure_agent_thread returned: it goes on to
\* post_agent_message whether or not there is a thread id
AfterEnsure(t) == "post"

\* if tid: _touch_thread(platform, chatroom_id, tid); return tid
Touch(w) ==
    /\ tpc[w] = "touch"
    /\ \E raised \in BOOLEAN :
         LET rows == TouchRows(agent_threads, wpair[w], tid[w], clock, raised) IN
         /\ agent_threads' = rows
         /\ call' = [call EXCEPT
                ![w].touchErr = raised,
                ![w].err = (call[w].err \/ raised),
                ![w].expAfter = rows[RowOfId(rows, tid[w])].expires_at,
                ![w].ret = tid[w]]
    /\ tpc' = [tpc EXCEPT ![w] = AfterEnsure(tid[w])]
    /\ UNCHANGED <<clock, agent_url, remote, wpair, fnow, tid, ncalls,
                   overlapped, retired>>
    /\ UNCHANGED offThread

\* new_tid = _create_remote_thread(); if not new_tid: return None
Create(w) ==
    /\ tpc[w] = "create"
    /\ \E o \in CreateOutcomes :
         LET res == IF agent_url THEN o ELSE "no_url" IN
         IF res = "ok"
         THEN /\ remote' = Append(remote, wpair[w])
              /\ tid' = [tid EXCEPT ![w] = Len(remote) + 1]
              /\ call' = [call EXCEPT ![w].createOut = res]
              /\ tpc' = [tpc EXCEPT ![w] = "insert"]
         ELSE /\ remote' = remote
              /\ tid' = [tid EXCEPT ![w] = None]
              /\ call' = [call EXCEPT ![w].createOut = res, ![w].ret = None,
                                      ![w].err = TRUE]
              /\ tpc' = [tpc EXCEPT ![w] = AfterEnsure(None)]
    /\ UNCHANGED <<clock, agent_url, agent_threads, wpair, fnow, ncalls,
                   overlapped, retired>>
    /\ UNCHANGED offThread

\* the INSERT of the new row; return new_tid
Insert(w) ==
    /\ tpc[w] = "insert"
    /\ \E raised \in BOOLEAN :
         /\ agent_threads' = InsertRow(agent_threads, wpair[w], tid[w], clock, raised)
         /\ call' = [call EXCEPT
                ![w].inserted = IF raised THEN 0 ELSE 1,
                ![w].err = (call[w].err \/ raised),
                ![w].ret = tid[w]]
    /\ tpc' = [tpc EXCEPT ![w] = AfterEnsure(tid[w])]
    /\ UNCHANGED <<clock, agent_url, remote, wpair, fnow, tid, ncalls,
                   overlapped, retired>>
    /\ UNCHANGED offThread

\* result = post_agent_message(payload, idempotency_key, thread_id=tid);
\* of a finished task only how it posted is kept
Post(w) ==
    /\ tpc[w] = "post"
    /\ call' = [call EXCEPT ![w] =
                   [NoCall EXCEPT !.post = IF call[w].ret = None THEN "nothread"
                                                              ELSE "thread"]]
    /\ tpc' = [tpc EXCEPT ![w] = "idle"]
    /\ fnow' = [fnow EXCEPT ![w] = 0]
    /\ tid' = [tid EXCEPT ![w] = None]
    /\ UNCHANGED <<clock, agent_url, agent_threads, remote, wpair,
                   ncalls, overlapped, retired>>
    /\ UNCHANGED offThread

ThreadNext ==
    \/ ClockTick
    \/ \E w \in Workers : StartForward(w)
    \/ \E w \in Workers : Find(w)
    \/ \E w \in Workers : Touch(w)
    \/ \E w \in Workers : Create(w)
    \/ \E w \in Workers : Insert(w)
    \/ \E w \in Workers : Post(w)

SpecThread == ThreadInit /\ [][ThreadNext]_vars

\* =============================================================== texts
\* A text is a sequence of characters; a character is a one-letter string,
\* or a name for a glyph outside ASCII.
Blank == " "

Min(a, b) == IF a <= b THEN a ELSE b

\* a SQL NULL / Python None where a text is expected
Null == <<"<null>">>

\* str.lower() on the letters that occur
LowerOf == [A |-> "a", I |-> "i", P |-> "p", C |-> "c", K |-> "k", S |-> "s",
            T |-> "t", R |-> "r", U |-> "u", H |-> "h", D |-> "d", W |-> "w",
            N |-> "n", O |-> "o", M |-> "m", E |-> "e", Y |-> "y", B |-> "b"]

Lower(c) == IF c \in DOMAIN LowerOf THEN LowerOf[c] ELSE c

RECURSIVE StripLeft(_)
StripLeft(t) ==
    IF t = <<>> THEN t
    ELSE IF Head(t) = Blank THEN StripLeft(Tail(t)) ELSE t

RECURSIVE StripRight(_)
StripRight(t) ==
    IF t = <<>> THEN t
    ELSE IF t[Len(t)] = Blank THEN StripRight(SubSeq(t, 1, Len(t) - 1)) ELSE t

\* str(text or "")
StrOr(t) == IF t = Null THEN <<>> ELSE t

\* str(text or "").strip()
Strip(t) == StripRight(StripLeft(StrOr(t)))

\* str(text or "").strip().lower()
Norm(t) == LET u == Strip(t) IN [i \in DOMAIN u |-> Lower(u[i])]

\* t.startswith(p)
StartsWith(t, p) == Len(t) >= Len(p) /\ SubSeq(t, 1, Len(p)) = p

\* sub in t
Contains(t, sub) ==
    \E i \in 1..(Len(t) - Len(sub) + 1) : SubSeq(t, i, i + Len(sub) - 1) = sub

CmdStart == <<"/", "s", "t", "a", "r", "t">>
CmdHelp == <<"/", "h", "e", "l", "p">>
CmdAiPick == <<"/", "a", "i", "_", "p", "i", "c", "k">>
CmdAiHistory == <<"/", "a", "i", "_", "h", "i", "s", "t", "o", "r", "y">>
CmdAiYesterday == <<"/", "a", "i", "_", "y", "e", "s", "t", "e", "r", "d", "a", "y">>

is_start_command(t) == Norm(t) # <<>> /\ StartsWith(Norm(t), CmdStart)
is_help_command(t) == Norm(t) # <<>> /\ StartsWith(Norm(t), CmdHelp)
\* a predicate that compares the text as it was sent
is_ai_pick_command_raw(t) == StrOr(t) # <<>> /\ StartsWith(StrOr(t), CmdAiPick)
is_ai_pick_command(t) == Norm(t) # <<>> /\ StartsWith(Norm(t), CmdAiPick)
is_ai_history_command(t) == Norm(t) # <<>> /\ StartsWith(Norm(t), CmdAiHistory)
is_ai_yesterday_command(t) == Norm(t) # <<>> /\ StartsWith(Norm(t), CmdAiYesterday)

NoCountry == "none"
ZhPH == <<"zh-fei", "zh-lv", "zh-bin">>
ZhUS == <<"zh-mei", "zh-guo">>
FlagPH == <<"RI-P", "RI-H">>
FlagUS == <<"RI-U", "RI-S">>

\* normalize_country: "PH", "US" or no country
normalize_country(t) ==
    LET n == Norm(t) IN
    IF n = <<>> THEN NoCountry
    ELSE IF Contains(n, ZhPH) \/ n = <<"p", "h">> \/ Contains(n, FlagPH) THEN "PH"
    ELSE IF Contains(n, ZhUS) \/ n = <<"u", "s">> \/ Contains(n, FlagUS) THEN "US"
    ELSE NoCountry

\* re.split(r"[\/\|,]+", t): the separators of a tag list
TagSeps == {"/", "|", ","}

RECURSIVE SplitOn(_, _, _)
SplitOn(t, part, acc) ==
    IF t = <<>> THEN Append(acc, part)
    ELSE IF Head(t) \in TagSeps THEN SplitOn(Tail(t), <<>>, Append(acc, part))
    ELSE SplitOn(Tail(t), Append(part, Head(t)), acc)

\* [p.strip() for p in re.split(...) if p and p.strip()]
TagParts(t) ==
    LET raw == SplitOn(t, <<>>, <<>>)
        kept == SelectSeq(raw, LAMBDA p : Strip(p) # <<>>)
    IN [i \in DOMAIN kept |-> Strip(kept[i])]

\* a key that keeps the case of the tag
TagKeyCased(p) == p

\* k = p.lower()
TagKey(p) == [i \in DOMAIN p |-> Lower(p[i])]

RECURSIVE Dedup(_, _, _)
Dedup(parts, seen, acc) ==
    IF parts = <<>> THEN acc
    ELSE LET k == TagKey(Head(parts)) IN
         IF k \in seen THEN Dedup(Tail(parts), seen, acc)
         ELSE Dedup(Tail(parts), seen \cup {k}, Append(acc, Head(parts)))

\* out[:6]
TagList(s) ==
    LET t == Strip(s)
        tags == Dedup(TagParts(t), {}, <<>>)
    IN IF t = <<>> THEN <<>> ELSE SubSeq(tags, 1, Min(Len(tags), MaxTags))

RECURSIVE Join(_, _)
Join(parts, sep) ==
    IF parts = <<>> THEN <<>>
    ELSE IF Len(parts) = 1 THEN Head(parts)
    ELSE Head(parts) \o sep \o Join(Tail(parts), sep)

\* format_tags: "" for an empty text, else the fire glyph, a space and the
\* tags joined by " · "
format_tags(s) ==
    IF Strip(s) = <<>> THEN <<>>
    ELSE <<"fire", " ">> \o Join(TagList(s), <<" ", "mid-dot", " ">>)

\* the texts the webhooks are delivered
T_empty == <<>>
T_blank == <<" ">>
T_start == <<"/", "s", "t", "a", "r", "t">>
T_start_upper == <<" ", "/", "S", "T", "A", "R", "T">>
T_help == <<"/", "h", "e", "l", "p">>
T_ai_pick == <<"/", "a", "i", "_", "p", "i", "c", "k">>
T_ai_pick_arg == <<"/", "A", "I", "_", "P", "I", "C", "K", " ", "x">>
T_ai_history == <<"/", "a", "i", "_", "h", "i", "s", "t", "o", "r", "y">>
T_ai_yesterday == <<"/", "a", "i", "_", "y", "e", "s", "t", "e", "r", "d", "a", "y">>
T_ph == <<"p", "h">>
T_us_upper == <<" ", "U", "S">>
T_flag_ph == <<"RI-P", "RI-H">>
T_zh_us == <<"zh-mei", "zh-guo">>
T_hi == <<"h", "i">>
T_ph_more == <<"p", "h", " ", "x">>
T_late_cmd == <<"x", " ", "/", "s", "t", "a", "r", "t">>

Texts ==
    {T_empty, T_blank, T_start, T_start_upper,
     T_help, T_ai_pick, T_ai_pick_arg, T_ai_history,
     T_ai_yesterday, T_ph, T_us_upper, T_flag_ph,
     T_zh_us, T_hi, T_ph_more, T_late_cmd}

\* ============================================================ webhooks
Opt(c, q) == IF c THEN q ELSE <<>>


\* a loop that cuts t[3001:] off: one character is lost between chunks
RECURSIVE ChunkFromLossy(_, _)
ChunkFromLossy(lo, hi) ==
    IF lo > hi THEN <<>>
    ELSE <<[from |-> lo, to |-> Min(hi, lo + ChunkLimit - 1)]>>
         \o ChunkFromLossy(lo + ChunkLimit + 1, hi)

\* while t: send_chatwoot_reply(..., t[:3000], ...); t = t[3000:]
\* on the characters lo..hi that remain of the text
RECURSIVE ChunkFrom(_, _)
ChunkFrom(lo, hi) ==
    IF lo > hi THEN <<>>
    ELSE <<[from |-> lo, to |-> Min(hi, lo + ChunkLimit - 1)]>>
         \o ChunkFrom(lo + ChunkLimit, hi)

\* the calls of send_chatwoot_reply for one text of n characters:
\* if len(seg) > 3500 the chunks, else the text whole
SendText(n) ==
    IF n > ChunkOver THEN ChunkFrom(1, n) ELSE <<[from |-> 1, to |-> n]>>

\* for seg in segments: ...
RECURSIVE SendSegments(_)
SendSegments(lens) ==
    IF lens = <<>> THEN <<>>
    ELSE SendText(Head(lens)) \o SendSegments(Tail(lens))

ChunkLen(c) == c.to - c.from + 1

\* the lengths a reply text is given
ReplyLens ==
    {0, 1, ChunkLimit, ChunkLimit + 1, ChunkOver, ChunkOver + 1,
     2 * ChunkLimit, 2 * ChunkLimit + 1, MaxReplyLen}

\* ai_pick_reply / ai_history_reply / ai_yesterday_reply called by a handler:
\* it raises (the store is down) or returns a text, never an empty one
AiOutcomes(text) ==
    IF is_ai_pick_command(text)
    THEN {[raised |-> TRUE, len |-> 1]}
         \cup {[raised |-> FALSE, len |-> n] : n \in ReplyLens \ {0}}
    ELSE IF is_ai_history_command(text) \/ is_ai_yesterday_command(text)
    THEN {[raised |-> r, len |-> 1] : r \in BOOLEAN}
    ELSE {[raised |-> FALSE, len |-> 1]}

\* a handler that forwards whatever is not empty
IsFreeFormAny(text) == Strip(text) # <<>>

\* t and not (is_help_command(content) or ... or normalize_country(content))
IsFreeForm(text) ==
    /\ Strip(text) # <<>>
    /\ ~ \/ is_help_command(text)
         \/ is_ai_pick_command(text)
         \/ is_ai_history_command(text)
         \/ is_ai_yesterday_command(text)
         \/ is_start_command(text)
         \/ normalize_country(text) # NoCountry

\* a handler that takes every message type for an incoming one
IsIncomingAny(mtype) == TRUE

\* if message_type == "incoming":
IsIncoming(mtype) == mtype = "incoming"

\* chatwoot_webhook: the texts it sends itself, for /ai_pick
ChatwootInline(r, ai) ==
    IF /\ r.kind = "message_created"
       /\ IsIncoming(r.mtype)
       /\ is_ai_pick_command(r.text)
       /\ ~ai.raised
       /\ r.ids
    THEN SendText(ai.len)
    ELSE <<>>

\* the prediction queries a handler makes before it responds: ai_pick_reply,
\* ai_history_reply and ai_yesterday_reply are called in the handler
InlineQueries(r) ==
    LET asked == Len(Opt(is_ai_pick_command(r.text), <<1>>)
                     \o Opt(is_ai_history_command(r.text), <<1>>)
                     \o Opt(is_ai_yesterday_command(r.text), <<1>>))
    IN IF r.platform = "chatwoot"
       THEN IF r.kind = "message_created" /\ IsIncoming(r.mtype) THEN asked ELSE 0
       ELSE IF r.kind = "message" /\ r.chat THEN asked ELSE 0

\* chatwoot_webhook: the background tasks it adds, in order
ChatwootTasks(r, ai) ==
    IF r.kind # "message_created" \/ ~IsIncoming(r.mtype) THEN <<>>
    ELSE <<"store_message">>
         \o Opt(is_help_command(r.text), <<"send_lark_help_alert">>)
         \o Opt(normalize_country(r.text) # NoCountry,
                <<"set_user_country">> \o Opt(r.ids, <<"send_chatwoot_reply">>))
         \o Opt(/\ is_ai_pick_command(r.text) /\ ~ai.raised /\ r.ids
                /\ ai.len <= ChunkOver /\ r.chat,
                <<"send_telegram_message_with_url_button">>)
         \o Opt(is_ai_history_command(r.text) /\ ~ai.raised /\ r.ids,
                <<"send_chatwoot_reply">>)
         \o Opt(is_ai_yesterday_command(r.text) /\ ~ai.raised /\ r.ids,
                <<"send_chatwoot_reply">>)
         \o Opt(IsFreeForm(r.text), <<"forward_chatwoot_to_agent">>)
         \o Opt(is_start_command(r.text),
                Opt(r.ids, <<"send_chatwoot_reply">>)
                \o <<"send_telegram_country_keyboard">>)

\* telegram_webhook: the background tasks it adds, in order
TelegramTasks(r, ai) ==
    IF r.kind = "message"
    THEN Opt(is_start_command(r.text), <<"send_telegram_country_keyboard">>)
         \o Opt(normalize_country(r.text) # NoCountry, <<"set_user_country">>)
         \o Opt(is_ai_pick_command(r.text) /\ r.chat /\ ~ai.raised,
                <<"send_telegram_message_with_url_button">>)
         \o Opt(is_ai_history_command(r.text) /\ r.chat /\ ~ai.raised,
                <<"send_telegram_message">>)
         \o Opt(is_ai_yesterday_command(r.text) /\ r.chat /\ ~ai.raised,
                <<"send_telegram_message">>)
         \o Opt(r.chat /\ IsFreeForm(r.text), <<"forward_telegram_to_agent">>)
    ELSE Opt(normalize_country(r.text) # NoCountry,
             <<"set_user_country", "answer_callback_query">>)

\* the deliveries of the helpdesk platform
ChatwootReqs ==
    [platform : {"chatwoot"}, kind : {"message_created", "conversation_updated"},
     mtype : {"incoming", "outgoing"}, text : Texts, ids : BOOLEAN,
     chat : BOOLEAN, sender : BOOLEAN]

\* the updates of the bot platform
TelegramReqs ==
    [platform : {"telegram"}, kind : {"message", "callback"},
     mtype : {"incoming"}, text : Texts, ids : {FALSE}, chat : BOOLEAN,
     sender : {TRUE}]

\* a webhook is called: the handler runs to its response
Deliver(r, ai) ==
    /\ hreq = NoReq
    /\ \A w \in Workers : tpc[w] = "idle"
    /\ ndeliv < MaxDeliveries
    /\ ndeliv' = ndeliv + 1
    /\ hreq' = r
    /\ chunks' = IF r.platform = "chatwoot" THEN ChatwootInline(r, ai) ELSE <<>>
    /\ eff' = [NoEff EXCEPT !.cw = Len(chunks'), !.inline = Len(chunks'),
                             !.queries = InlineQueries(r)]
    /\ tasks' = IF r.platform = "chatwoot" THEN ChatwootTasks(r, ai)
                                           ELSE TelegramTasks(r, ai)
    /\ call' = [w \in Workers |-> NoCall]
    /\ UNCHANGED <<clock, agent_url, agent_threads, remote, tpc, wpair, fnow,
                   tid, ncalls, overlapped, retired>>
    /\ UNCHANGED offHook

chatwoot_webhook ==
    \E r \in ChatwootReqs : \E ai \in AiOutcomes(r.text) : Deliver(r, ai)

telegram_webhook ==
    \E r \in TelegramReqs : \E ai \in AiOutcomes(r.text) : Deliver(r, ai)

Pop == tasks' = Tail(tasks)

HookFrame ==
    /\ UNCHANGED <<hreq, ndeliv, chunks>>
    /\ UNCHANGED threadVars
    /\ UNCHANGED offHook

\* store_message: the users upsert (when the payload has a sender id) and
\* the chat_messages INSERT, committed together; any error is logged
store_message ==
    /\ tasks # <<>> /\ Head(tasks) = "store_message"
    /\ \E raised \in BOOLEAN :
         eff' = [eff EXCEPT
                   !.storeTasks = @ + 1,
                   !.stored = IF raised THEN @ ELSE @ + 1,
                   !.user = IF raised \/ ~hreq.sender THEN @ ELSE @ + 1]
    /\ Pop
    /\ HookFrame

\* set_user_country: the users upsert that writes the country
set_user_country ==
    /\ tasks # <<>> /\ Head(tasks) = "set_user_country"
    /\ \E raised \in BOOLEAN :
         eff' = [eff EXCEPT
                   !.user = IF raised THEN @ ELSE @ + 1,
                   !.country = IF raised THEN @ ELSE @ + 1]
    /\ Pop
    /\ HookFrame

TelegramSends ==
    {"send_telegram_message", "send_telegram_message_with_url_button",
     "send_telegram_country_keyboard", "answer_callback_query"}

\* the background tasks that only call an outbound API
SendTask ==
    /\ tasks # <<>>
    /\ Head(tasks) \in TelegramSends \cup {"send_chatwoot_reply", "send_lark_help_alert"}
    /\ eff' = [eff EXCEPT
                 !.cw = IF Head(tasks) = "send_chatwoot_reply" THEN @ + 1 ELSE @,
                 !.tg = IF Head(tasks) \in TelegramSends THEN @ + 1 ELSE @,
                 !.lark = IF Head(tasks) = "send_lark_help_alert" THEN @ + 1 ELSE @]
    /\ Pop
    /\ HookFrame

Forwards == {"forward_chatwoot_to_agent", "forward_telegram_to_agent"}

\* the thread key of the delivery: chatroom_id_raw or conversation_id on the
\* helpdesk platform, chat_id on the bot platform
HasThreadKey(r) == IF r.platform = "chatwoot" THEN r.chat \/ r.ids ELSE r.chat

\* a forwarding task that sends no placeholder
PlaceholderNever(r) == 0

\* if acc_id_int is not None and conv_id_int is not None:
\*     send_chatwoot_reply(..., "Assistant is thinking, please wait...", ...)
\* if chat_id is not None: send_telegram_message(chat_id, "Assistant is ...")
PlaceholderSends(r) ==
    IF r.platform = "chatwoot" THEN (IF r.ids THEN 1 ELSE 0)
    ELSE (IF r.chat THEN 1 ELSE 0)

\* forward_*_to_agent up to ensure_agent_thread: the placeholder is sent and
\* the thread looked for
ForwardStart ==
    /\ tasks # <<>> /\ Head(tasks) \in Forwards
    /\ eff.forwards = 0
    /\ tpc[1] = "idle"
    /\ ncalls < MaxCalls
    /\ IF hreq.platform = "chatwoot" /\ hreq.mtype # "incoming"
       THEN /\ Pop
            /\ UNCHANGED <<eff, tpc, wpair, call, ncalls>>
       ELSE /\ eff' = [eff EXCEPT
                         !.forwards = 1,
                         !.wait = PlaceholderSends(hreq),
                         !.cw = IF hreq.platform = "chatwoot"
                                THEN @ + PlaceholderSends(hreq) ELSE @,
                         !.tg = IF hreq.platform = "telegram"
                                THEN @ + PlaceholderSends(hreq) ELSE @]
            /\ wpair' = [wpair EXCEPT ![1] = <<hreq.platform, "7">>]
            /\ call' = [call EXCEPT ![1] =
                          [NoCall EXCEPT !.rows0 =
                              Cardinality(RowsOf(agent_threads, wpair'[1]))]]
            /\ tpc' = [tpc EXCEPT ![1] = IF HasThreadKey(hreq) THEN "find"
                                                               ELSE "post"]
            /\ ncalls' = ncalls + 1
            /\ UNCHANGED tasks
    /\ UNCHANGED <<clock, agent_url, agent_threads, remote, fnow, tid,
                   overlapped, retired>>
    /\ UNCHANGED <<hreq, ndeliv, chunks>>
    /\ UNCHANGED offHook

\* what post_agent_message returns: nothing, a reply text, or segments
AgentResults ==
    {[kind |-> "none", lens |-> <<>>]}
    \cup {[kind |-> "reply", lens |-> <<n>>] : n \in ReplyLens}
    \cup {[kind |-> "segments", lens |-> <<n>>] : n \in ReplyLens}
    \cup {[kind |-> "segments", lens |-> <<n, m>>] :
             n, m \in {1, ChunkOver, ChunkOver + 1}}

NonEmpty(lens) == Len(SelectSeq(lens, LAMBDA n : n > 0))

\* forward_*_to_agent after post_agent_message: the reply is delivered
ForwardReply ==
    /\ tasks # <<>> /\ Head(tasks) \in Forwards
    /\ eff.forwards = 1
    /\ tpc[1] = "idle"
    /\ \E res \in AgentResults :
         /\ ~agent_url => res.kind = "none"
         /\ LET sends == IF hreq.platform = "chatwoot" /\ hreq.ids
                             /\ res.kind # "none"
                         THEN SendSegments(res.lens) ELSE <<>>
            IN /\ chunks' = chunks \o sends
               /\ eff' = [eff EXCEPT
                            !.cw = @ + Len(sends),
                            !.tg = IF hreq.platform = "telegram"
                                   THEN @ + NonEmpty(res.lens) ELSE @,
                            !.replies = IF hreq.platform = "telegram"
                                        THEN NonEmpty(res.lens) ELSE Len(sends)]
    /\ Pop
    /\ UNCHANGED <<hreq, ndeliv>>
    /\ UNCHANGED threadVars
    /\ UNCHANGED offHook

\* the last background task has run: the delivery is over
Complete ==
    /\ hreq # NoReq
    /\ tasks = <<>>
    /\ hreq' = NoReq
    /\ eff' = NoEff
    /\ chunks' = <<>>
    /\ UNCHANGED <<tasks, ndeliv>>
    /\ UNCHANGED threadVars
    /\ UNCHANGED offHook

HookInit ==
    /\ ThreadInit
    /\ wpair = [w \in Workers |-> <<"chatwoot", "7">>]

HookNext ==
    \/ chatwoot_webhook
    \/ telegram_webhook
    \/ store_message
    \/ set_user_country
    \/ SendTask
    \/ ForwardStart
    \/ \E w \in Workers : Find(w)
    \/ \E w \in Workers : Touch(w)
    \/ \E w \in Workers : Create(w)
    \/ \E w \in Workers : Insert(w)
    \/ \E w \in Workers : Post(w)
    \/ ForwardReply
    \/ Complete
    \/ ClockTick

SpecHook == HookInit /\ [][HookNext]_vars

\* ===================================================== prediction queries
\* a SQL NULL in a timestamp column
NullDate == 0 - 1

\* str(v)
Str(v) == IF v = Null THEN <<"N", "o", "n", "e">> ELSE v

\* the outcome a token stands for in the pick digest
OutcomeOf(t) ==
    IF t \in {<<"3">>, <<"h","o","m","e">>, <<"h">>} THEN "home"
    ELSE IF t \in {<<"1">>, <<"d","r","a","w">>, <<"d">>} THEN "draw"
    ELSE IF t \in {<<"0">>, <<"a","w","a","y">>, <<"a">>} THEN "away"
    ELSE "other"

\* is_prediction_success: p = str(predict_winner).strip().lower(), r likewise;
\* False if either is empty, else p == r
is_prediction_success(predict_winner, result) ==
    LET p == Norm(Str(predict_winner))
        r == Norm(Str(result))
    IN IF p = <<>> \/ r = <<>> THEN FALSE ELSE p = r

Digits == <<"0", "1", "2", "3", "4", "5", "6", "7", "8", "9">>

IsDigit(c) == \E i \in DOMAIN Digits : Digits[i] = c

DigitVal(c) == (CHOOSE i \in DOMAIN Digits : Digits[i] = c) - 1

\* (x)::text ~ '^-?\d+$'
IsIntText(t) ==
    LET d == IF t # <<>> /\ Head(t) = "-" THEN Tail(t) ELSE t IN
    d # <<>> /\ \A i \in DOMAIN d : IsDigit(d[i])

RECURSIVE DigitsVal(_)
DigitsVal(d) ==
    IF d = <<>> THEN 0
    ELSE 10 * DigitsVal(SubSeq(d, 1, Len(d) - 1)) + DigitVal(d[Len(d)])

\* (x)::int
IntOf(t) == IF Head(t) = "-" THEN 0 - DigitsVal(Tail(t)) ELSE DigitsVal(t)

\* CASE WHEN predict_winner ~ '^-?\d+$' AND result ~ '^-?\d+$'
\*       AND predict_winner::int = result::int THEN 1 ELSE 0 END
SqlSuccess(predict_winner, result) ==
    IF /\ predict_winner # Null /\ result # Null
       /\ IsIntText(predict_winner) /\ IsIntText(result)
       /\ IntOf(predict_winner) = IntOf(result)
    THEN 1 ELSE 0

\* a filter that keeps a kickoff at the end of the window
InWindowClosed(dt, start, end) ==
    /\ dt # NullDate
    /\ ~(start # NullDate /\ dt < start)
    /\ ~(end # NullDate /\ dt > end)

\* the row passes calc_accuracy's filter: a kickoff, not before start
\* (when given), before end (when given)
InWindow(dt, start, end) ==
    /\ dt # NullDate
    /\ ~(start # NullDate /\ dt < start)
    /\ ~(end # NullDate /\ dt >= end)

Filtered(rows, start, end) ==
    SelectSeq(rows, LAMBDA r : InWindow(r.fixture_date, start, end))

Successes(rows) ==
    Len(SelectSeq(rows, LAMBDA r : is_prediction_success(r.predict_winner, r.result)))

\* a percentage cut after its first decimal, in tenths
TenthsFloor(success, total) == (1000 * success) \div total

\* round((success / total) * 100, 1), in tenths of a percent; a tie goes to
\* the even tenth
Tenths(success, total) ==
    LET q == (1000 * success) \div total
        r == (1000 * success) % total
    IN IF 2 * r > total THEN q + 1
       ELSE IF 2 * r < total THEN q
       ELSE IF q % 2 = 0 THEN q ELSE q + 1

\* ROUND(sum::numeric / NULLIF(count, 0) * 100, 1), in tenths; a tie goes
\* away from zero
SqlTenths(success, total) ==
    LET q == (1000 * success) \div total
        r == (1000 * success) % total
    IN IF 2 * r >= total THEN q + 1 ELSE q

\* calc_accuracy, in tenths of a percent
calc_accuracy(rows, start, end) ==
    LET filtered == Filtered(rows, start, end)
        total == Len(filtered)
    IN IF total = 0 THEN 0 ELSE Tenths(Successes(filtered), total)

\* the window of the yesterday digest: [yesterday_start, yesterday_end)
YesterdayStart == 1
YesterdayEnd == 2

\* ... AND e.result IS NOT NULL
SettledRows(rows) == SelectSeq(rows, LAMBDA r : r.result # Null)

\* ... AND f.fixture_date >= %s AND f.fixture_date < %s
InYesterday(rows) ==
    SelectSeq(rows, LAMBDA r : /\ r.fixture_date # NullDate
                               /\ r.fixture_date >= YesterdayStart
                               /\ r.fixture_date < YesterdayEnd)

\* the first query of the yesterday digest: the success marker of each row
YesterdayMarks(rows) ==
    LET sel == InYesterday(SettledRows(rows)) IN
    [i \in DOMAIN sel |-> SqlSuccess(sel[i].predict_winner, sel[i].result)]

RECURSIVE SumSeq(_)
SumSeq(q) == IF q = <<>> THEN 0 ELSE Head(q) + SumSeq(Tail(q))

\* the second query: COALESCE(ROUND(SUM(success) / NULLIF(COUNT(1), 0) * 100, 1), 0.0)
YesterdayAcc(rows) ==
    LET m == YesterdayMarks(rows) IN
    IF Len(m) = 0 THEN 0 ELSE SqlTenths(SumSeq(m), Len(m))

\* the values of predict_winner and of result
PredTokens == {<<"3">>, <<"H", "o", "m", "e">>, <<"1">>, <<"0">>, <<"a">>}
ResultTokens ==
    {<<"3">>, <<"h", "o", "m", "e">>, <<"H">>, <<"1">>, <<"d", "r", "a", "w">>, <<"0">>, <<"A", "w", "a", "y">>, Null}
Kickoffs == {NullDate} \cup (0..MaxKick)

EvalRows == [predict_winner : PredTokens, result : ResultTokens, fixture_date : Kickoffs]

\* the rows after the first one are drawn from fewer values
MoreRows ==
    [predict_winner : {<<"3">>}, result : {<<"3">>, <<"0">>, Null},
     fixture_date : {NullDate, YesterdayStart}]

RECURSIVE Tables(_)
Tables(n) ==
    IF n = 0 THEN {<<>>}
    ELSE IF n = 1 THEN {<<>>} \cup {<<r>> : r \in EvalRows}
    ELSE Tables(n - 1)
         \cup {Append(t, r) : t \in {u \in Tables(n - 1) : Len(u) = n - 1}, r \in MoreRows}

AiInit ==
    /\ SchedIdle
    /\ ThreadsIdle
    /\ HooksIdle
    /\ FnIdle
    /\ UsersIdle
    /\ ChatIdle
    /\ ai_eval \in Tables(MaxRows)
    /\ apc = "idle"
    /\ ares = NoRes

\* ORDER BY f.fixture_date DESC (a NULL date sorts first)
DateKey(d) == IF d = NullDate THEN MaxKick + 1 ELSE d

RECURSIVE InsertDesc(_, _)
InsertDesc(q, r) ==
    IF q = <<>> THEN <<r>>
    ELSE IF DateKey(Head(q).fixture_date) >= DateKey(r.fixture_date)
         THEN <<Head(q)>> \o InsertDesc(Tail(q), r)
         ELSE <<r>> \o q

RECURSIVE SortDesc(_)
SortDesc(q) == IF q = <<>> THEN <<>> ELSE InsertDesc(SortDesc(Tail(q)), Head(q))

\* the bounds calc_accuracy is called with
WindowStarts == {NullDate, YesterdayStart}
WindowEnds == {NullDate, YesterdayEnd}

\* calc_accuracy(rows, start, end) on the records of the table
CalcAccuracy(start, end) ==
    /\ apc = "idle"
    /\ ares' = [NoRes EXCEPT !.op = "calc_accuracy", !.start = start,
                             !.end = end, !.rows = ai_eval,
                             !.acc = calc_accuracy(ai_eval, start, end)]
    /\ UNCHANGED <<ai_eval, apc>>
    /\ UNCHANGED offAi

\* ai_history_reply: the settled records, newest first; the overall and the
\* yesterday accuracy; a glyph for each of the first records
ai_history_reply ==
    /\ apc = "idle"
    /\ \E raised \in BOOLEAN :
         LET rows == IF raised THEN <<>> ELSE SortDesc(SettledRows(ai_eval)) IN
         ares' = [NoRes EXCEPT
                    !.op = "history",
                    !.start = YesterdayStart,
                    !.end = YesterdayEnd,
                    !.rows = [i \in DOMAIN rows |->
                                [predict_winner |-> rows[i].predict_winner,
                                 result |-> rows[i].result,
                                 success |-> IF is_prediction_success(
                                                   rows[i].predict_winner,
                                                   rows[i].result)
                                             THEN 1 ELSE 0]],
                    !.acc = IF rows = <<>> THEN 0
                            ELSE calc_accuracy(rows, NullDate, NullDate),
                    !.text = IF rows = <<>> THEN "nodata" ELSE "digest"]
    /\ UNCHANGED <<ai_eval, apc>>
    /\ UNCHANGED offAi

\* ai_yesterday_reply / ai_yesterday_text_for_country: the first query, the
\* rows with their success markers
YesterdayQuery1 ==
    /\ apc = "idle"
    /\ \E raised \in BOOLEAN :
         LET sel == IF raised THEN <<>> ELSE InYesterday(SettledRows(ai_eval)) IN
         /\ ares' = [NoRes EXCEPT
                       !.op = "yesterday",
                       !.start = YesterdayStart,
                       !.end = YesterdayEnd,
                       !.rows = [i \in DOMAIN sel |->
                                   [predict_winner |-> sel[i].predict_winner,
                                    result |-> sel[i].result,
                                    success |-> SqlSuccess(sel[i].predict_winner,
                                                           sel[i].result)]],
                       !.text = IF raised THEN "nodata" ELSE "none"]
         /\ apc' = IF raised THEN "idle" ELSE "q1"
    /\ UNCHANGED ai_eval
    /\ UNCHANGED offAi

\* the evaluation pipeline settles or corrects a record while the digest is
\* between its two statements
Settle(n, v) ==
    /\ apc = "q1"
    /\ n \in DOMAIN ai_eval
    /\ ai_eval[n].result # v
    /\ ai_eval' = [ai_eval EXCEPT ![n].result = v]
    /\ UNCHANGED <<apc, ares>>
    /\ UNCHANGED offAi

\* the second query, the aggregate; then the text: the canned one if no row
\* was fetched, else the percentage and the rows
YesterdayQuery2 ==
    /\ apc = "q1"
    /\ \E raised \in BOOLEAN :
         ares' = [ares EXCEPT
                    !.acc = IF raised THEN 0 ELSE YesterdayAcc(ai_eval),
                    !.text = IF ares.rows = <<>> THEN "nodata" ELSE "digest"]
    /\ apc' = "idle"
    /\ UNCHANGED ai_eval
    /\ UNCHANGED offAi

AiNext ==
    \/ \E start \in WindowStarts, end \in WindowEnds : CalcAccuracy(start, end)
    \/ ai_history_reply
    \/ YesterdayQuery1
    \/ \E n \in 1..MaxRows, v \in {<<"3">>, <<"0">>} : Settle(n, v)
    \/ YesterdayQuery2

SpecAi == AiInit /\ [][AiNext]_vars

\* =========================================================== pure functions
\* The functions below read no state of the program: each is observed by
\* calling it on every argument of a small set.

\* the instants a prediction query is made at
FnNows == 0 .. MaxFnDays * MinutesPerDay - 1

\* config.read_offset: any integer of the offset file
FnOffsets == {0 - 4, 0, 8}

\* kickoffs: every four hours, and the instant before each
FnKicks ==
    LET marks == {h * 4 * MinutesPerHour : h \in 0 .. (MaxFnDays + 4) * 6}
    IN marks \cup {m - 1 : m \in marks \ {0}}

\* datetime(local.year, local.month, local.day): the day of an instant
DayFloor(t) == (t \div MinutesPerDay) * MinutesPerDay

\* a day start that is the local midnight itself, not shifted back to UTC
TodayStartLocal(t, off) == DayFloor(t + off * MinutesPerHour)

\* ai_yesterday_reply: today_start_utc = local_today - timedelta(hours=offset)
TodayStartUtc(t, off) ==
    DayFloor(t + off * MinutesPerHour) - off * MinutesPerHour

\* tomorrow_local_day - timedelta(hours=offset)
TomorrowStartUtc(t, off) == TodayStartUtc(t, off) + MinutesPerDay

\* app/ai.py ai_pick_reply and ai_pick_text_for_country: start_utc = now_utc,
\* end_utc = tomorrow_local_day - offset + timedelta(days=2)
AppPickWindow(t, off) ==
    [start |-> t, end |-> TomorrowStartUtc(t, off) + 2 * MinutesPerDay]

\* main.py _ai_pick_reply: start_utc = tomorrow_local_day - offset,
\* end_utc = start_utc + timedelta(days=1)
MainPickWindow(t, off) ==
    [start |-> TomorrowStartUtc(t, off),
     end |-> TomorrowStartUtc(t, off) + MinutesPerDay]

\* WHERE f.fixture_date >= %s AND f.fixture_date < %s
InPickWindow(w, k) == w.start <= k /\ k < w.end

\* no call is being observed
FnReady == fin = NoCallFn

\* a function is called and returns
FnCall(name, args, result) ==
    /\ fin' = [fn |-> name, args |-> args]
    /\ fout' = result
    /\ UNCHANGED offFn

\* the caller is done with the result
FnReturn ==
    /\ fin # NoCallFn
    /\ fin' = NoCallFn
    /\ fout' = <<>>
    /\ UNCHANGED offFn

\* the day start of a prediction query is computed
today_start_utc ==
    /\ FnReady
    /\ \E t \in FnNows : \E off \in FnOffsets :
        FnCall("today_start_utc", <<t, off>>, TodayStartUtc(t, off))

\* a pick digest is asked for a fixture: does the digest list it
PickQuery(name, t, off, k, w) ==
    FnCall(name, <<t, off, k>>, InPickWindow(w, k))

ai_pick_reply ==
    /\ FnReady
    /\ \E t \in FnNows : \E off \in FnOffsets : \E k \in FnKicks :
        PickQuery("ai_pick_reply", t, off, k, AppPickWindow(t, off))

ai_pick_text_for_country ==
    /\ FnReady
    /\ \E t \in FnNows : \E off \in FnOffsets : \E k \in FnKicks :
        PickQuery("ai_pick_text_for_country", t, off, k, AppPickWindow(t, off))

main_ai_pick_reply ==
    /\ FnReady
    /\ \E t \in FnNows : \E off \in FnOffsets : \E k \in FnKicks :
        PickQuery("_ai_pick_reply", t, off, k, MainPickWindow(t, off))

\* the texts the text functions are called on: those of the webhooks, null,
\* a command with an argument, and the countries' names in English
T_ai_pick_today == <<"/", "A", "I", "_", "P", "I", "C", "K", " ", "t", "o", "d", "a", "y">>
T_en_ph == <<"P", "h", "i", "l", "i", "p", "p", "i", "n", "e", "s">>
T_en_us == <<"u", "n", "i", "t", "e", "d", " ", "s", "t", "a", "t", "e", "s">>
T_label_us == <<"RI-U", "RI-S", " ">> \o <<"U", "n", "i", "t", "e", "d", " ", "S", "t", "a", "t", "e", "s">>
T_zh_ph_in == <<"x", "zh-fei", "zh-lv", "zh-bin", "x">>
T_us_more == <<"u", "s", " ", "x">>

FnTexts ==
    Texts \cup {Null, T_ai_pick_today, T_en_ph, T_en_us, T_label_us,
                T_zh_ph_in, T_us_more}

\* the five command predicates are called on a text
command_predicates ==
    /\ FnReady
    /\ \E t \in FnTexts :
        FnCall("command_predicates", <<t>>,
               [start |-> is_start_command(t),
                help |-> is_help_command(t),
                ai_pick |-> is_ai_pick_command(t),
                ai_history |-> is_ai_history_command(t),
                ai_yesterday |-> is_ai_yesterday_command(t)])

\* normalize_country is called on a text
normalize_country_call ==
    /\ FnReady
    /\ \E t \in FnTexts :
        FnCall("normalize_country", <<t>>, normalize_country(t))

\* key_tag_evidence values: every text of at most MaxTagLen characters over
\* a small alphabet, and some longer ones
TagAlphabet == {"a", "A", "b", "/", ",", " "}

RECURSIVE TagTextsOf(_)
TagTextsOf(n) ==
    IF n = 0 THEN {<<>>}
    ELSE TagTextsOf(n - 1)
         \cup {Append(t, c) : t \in {u \in TagTextsOf(n - 1) : Len(u) = n - 1},
                              c \in TagAlphabet}

T_tags_example == <<"O", "v", "e", "r", "2", ".", "5", "/", "B", "T", "T", "S", ",", "C", "o", "r", "n", "e", "r", "s", "|", "B", "T", "T", "S">>
T_tags_eight == <<"a", "/", "b", "/", "c", "/", "d", "/", "e", "/", "f", "/", "g", "/", "h">>
T_tags_repeat == <<"a", "/", "b", "/", "A", "/", "c", "/", "d", "|", "B", "/", "e", ",", "f", "/", "g">>
T_tags_blank == <<" ", "a", " ", "|", " ", "b", " ", ",", ",", " ", "/">>

TagTexts ==
    TagTextsOf(MaxTagLen)
    \cup {Null, T_tags_example, T_tags_eight, T_tags_repeat, T_tags_blank}

\* format_tags is called on a key_tag_evidence value
format_tags_call ==
    /\ FnReady
    /\ \E s \in TagTexts :
        FnCall("format_tags", <<s>>,
               [tags |-> TagList(s), text |-> format_tags(s)])

\* AGENT_ENDPOINT_PATH: a JSON-RPC path (/a2a/), a runs path, a streaming
\* runs path, or any other path
EndpointKinds == {"a2a", "runs", "runs_stream", "other"}

\* what a request to the agent service does: it raises, answers with a
\* status of 300 or more, answers with texts, or answers without any
HttpOutcomes == {"raise", "non2xx", "texts", "empty"}

\* the status check and the normalization of a response that was received
AgentResult(kind, r) ==
    IF r = "non2xx" THEN "busy"
    ELSE IF r = "texts" /\ kind # "other" THEN "segments"
    ELSE "data"

\* post_agent_message: the requests it makes and what it returns, given
\* what the first and the second request do
post_agent_message(url, kind, r1, r2) ==
    IF ~url THEN [requests |-> 0, result |-> "none"]
    ELSE IF kind \in {"a2a", "other"}
    THEN [requests |-> 1,
          result |-> IF r1 = "raise" THEN "busy" ELSE AgentResult(kind, r1)]
    ELSE IF r1 = "raise"
    \* except Exception: resp = requests.post(endpoint, json=payload, ...)
    THEN [requests |-> 2,
          result |-> IF r2 = "raise" THEN "busy" ELSE AgentResult(kind, r2)]
    ELSE IF kind = "runs"
    THEN [requests |-> 1, result |-> AgentResult(kind, r1)]
    \* the stream: its status is not looked at
    ELSE IF r1 = "texts"
    THEN [requests |-> 1, result |-> "segments"]
    \* fallback to non-stream
    ELSE [requests |-> 2,
          result |-> IF r2 = "texts" THEN "segments" ELSE "busy"]

\* post_agent_message is called for a forwarded message
post_agent_message_call ==
    /\ FnReady
    /\ \E url \in BOOLEAN : \E kind \in EndpointKinds :
       \E r1 \in HttpOutcomes : \E r2 \in HttpOutcomes :
        FnCall("post_agent_message", <<url, kind, r1, r2>>,
               post_agent_message(url, kind, r1, r2))

\* yesterday_start = today_start_utc - timedelta(days=1);
\* yesterday_end = today_start_utc
YesterdayWindow(t, off) ==
    [start |-> TodayStartUtc(t, off) - MinutesPerDay,
     end |-> TodayStartUtc(t, off)]

\* the yesterday window is computed and a kickoff tested against it, by the
\* query of ai_yesterday_reply and by calc_accuracy in ai_history_reply
yesterday_window ==
    /\ FnReady
    /\ \E t \in FnNows : \E off \in FnOffsets : \E k \in FnKicks :
        LET w == YesterdayWindow(t, off) IN
        FnCall("yesterday_window", <<t, off, k>>,
               [sql |-> InPickWindow(w, k), py |-> InWindow(k, w.start, w.end)])

\* a reply text of n characters is delivered on the helpdesk platform: what
\* the chunking loop sends for it, and what the whole branch sends
chunk_reply ==
    /\ FnReady
    /\ \E n \in 0 .. MaxReplyLen :
        FnCall("chunk_reply", <<n>>,
               [loop |-> ChunkFrom(1, n), sent |-> SendText(n)])

\* the three on-demand prediction queries
ReplyNames == {"ai_pick_reply", "ai_history_reply", "ai_yesterday_reply"}

\* how a prediction query ends, given what the store does on the country
\* lookup (get_country_for_chat, outside every try) and on the query itself
\* (inside a try in ai_history_reply and ai_yesterday_reply, outside any in
\* ai_pick_reply): the exception leaves the function, the canned no-data
\* text is returned, or the digest is
ReplyOutcome(name, lookup, query) ==
    IF lookup = "raise" THEN "raised"
    ELSE IF query = "raise"
    THEN IF name = "ai_pick_reply" THEN "raised" ELSE "canned"
    ELSE IF query = "empty" THEN "canned"
    ELSE "text"

\* a prediction query is made while the store answers or fails
prediction_reply_call ==
    /\ FnReady
    /\ \E name \in ReplyNames : \E lookup \in {"ok", "raise"} :
       \E query \in {"rows", "empty", "raise"} :
        FnCall("prediction_reply", <<name, lookup, query>>,
               ReplyOutcome(name, lookup, query))

FnInit ==
    /\ SchedIdle
    /\ ThreadsIdle
    /\ HooksIdle
    /\ AiIdle
    /\ UsersIdle
    /\ ChatIdle
    /\ FnIdle

FnNext ==
    \/ FnReturn
    \/ today_start_utc
    \/ ai_pick_reply
    \/ ai_pick_text_for_country
    \/ main_ai_pick_reply
    \/ command_predicates
    \/ normalize_country_call
    \/ format_tags_call
    \/ post_agent_message_call
    \/ prediction_reply_call
    \/ yesterday_window
    \/ chunk_reply

SpecFn == FnInit /\ [][FnNext]_vars

\* ============================================================ users table
\* The statements of store_message, set_user_country and
\* get_country_for_chat on the users table. A body is kept as the fields the
\* three functions look for: sender.id, sender.name and the chat id of the
\* additional attributes (helpdesk bodies carry them, bot bodies do not), and
\* message.chat.id of a bot update, which they do not look for.
\* a NULL column of the users table, a missing field of a body
SqlNull == "NULL"

UserIds == {"u1"}
UserNames == {"ann", "bob"}
Chats == {"7"}
CountryTexts == {T_ph, T_zh_us}

\* the bodies of the helpdesk platform that choose a country
ChatwootBodies ==
    [platform : {"chatwoot"}, sender_id : UserIds \cup {SqlNull},
     name : UserNames \cup {SqlNull}, chat_id : Chats \cup {SqlNull},
     tg_chat : {SqlNull}, text : CountryTexts]

\* the messages and callbacks of the bot platform that choose a country
TelegramBodies ==
    [platform : {"telegram"}, sender_id : {SqlNull}, name : {SqlNull},
     chat_id : {SqlNull}, tg_chat : Chats, text : CountryTexts]

\* the body the prediction queries are given for a later command of the same
\* chat: the body itself, or on the bot platform
\* {"data": {"message": {"additional_attributes": {"chat_id": chat_id}}}}
HintOf(b) ==
    IF b.platform = "chatwoot" THEN [b EXCEPT !.text = T_ai_pick]
    ELSE [b EXCEPT !.chat_id = b.tg_chat, !.text = T_ai_pick]

\* extract_chatroom_id(body)
extract_chatroom_id(b) == b.chat_id

\* sender.get("id") or data.get("sender_id") or ...
ExternalId(b) == b.sender_id

\* the positions of the rows with an external id / a chatroom id
RowsByExternalId(tbl, x) == {i \in DOMAIN tbl : tbl[i].external_id = x}
RowsByChatroom(tbl, c) == {i \in DOMAIN tbl : tbl[i].chatroom_id = c}

\* COALESCE(a, b)
Coalesce(a, b) == IF a # SqlNull THEN a ELSE b

\* an upsert that also writes the country column, which a plain message
\* does not carry
StoreMessageUpsertResetting(tbl, b) ==
    LET x == ExternalId(b) IN
    IF x = SqlNull THEN tbl
    ELSE IF RowsByExternalId(tbl, x) = {}
    THEN Append(tbl, [external_id |-> x, username |-> b.name,
                      chatroom_id |-> extract_chatroom_id(b),
                      country |-> SqlNull])
    ELSE [i \in DOMAIN tbl |->
            IF tbl[i].external_id = x
            THEN [tbl[i] EXCEPT
                    !.username = b.name,
                    !.chatroom_id = Coalesce(extract_chatroom_id(b), @),
                    !.country = SqlNull]
            ELSE tbl[i]]

\* store_message: if external_id is not None, INSERT INTO users ... ON
\* CONFLICT (external_id) DO UPDATE SET username = EXCLUDED.username,
\* chatroom_id = COALESCE(EXCLUDED.chatroom_id, users.chatroom_id)
StoreMessageUpsert(tbl, b) ==
    LET x == ExternalId(b) IN
    IF x = SqlNull THEN tbl
    ELSE IF RowsByExternalId(tbl, x) = {}
    THEN Append(tbl, [external_id |-> x, username |-> b.name,
                      chatroom_id |-> extract_chatroom_id(b),
                      country |-> SqlNull])
    ELSE [i \in DOMAIN tbl |->
            IF tbl[i].external_id = x
            THEN [tbl[i] EXCEPT
                    !.username = b.name,
                    !.chatroom_id = Coalesce(extract_chatroom_id(b), @)]
            ELSE tbl[i]]

\* set_user_country: INSERT INTO users (external_id, username, chatroom_id,
\* country) ... ON CONFLICT (external_id) DO UPDATE SET username =
\* COALESCE(EXCLUDED.username, users.username), chatroom_id = COALESCE(...),
\* country = EXCLUDED.country. A null external id conflicts with no row.
SetCountryUpsert(tbl, b) ==
    LET x == ExternalId(b)
        c == normalize_country(b.text)
    IN
    IF c = NoCountry THEN tbl
    ELSE IF x = SqlNull \/ RowsByExternalId(tbl, x) = {}
    THEN Append(tbl, [external_id |-> x, username |-> b.name,
                      chatroom_id |-> extract_chatroom_id(b),
                      country |-> c])
    ELSE [i \in DOMAIN tbl |->
            IF tbl[i].external_id = x
            THEN [tbl[i] EXCEPT
                    !.username = Coalesce(b.name, @),
                    !.chatroom_id = Coalesce(extract_chatroom_id(b), @),
                    !.country = c]
            ELSE tbl[i]]

\* SELECT country FROM users WHERE ... LIMIT 1: the country of any matching
\* row, or none without a match
SelectCountry(tbl, rows) ==
    IF rows = {} THEN {SqlNull} ELSE {tbl[i].country : i \in rows}

\* get_country_for_chat: by chatroom_id first, then by external_id if that
\* gave no country; every answer the store may give
get_country_for_chat(tbl, b) ==
    LET c == extract_chatroom_id(b)
        x == ExternalId(b)
        first == IF c # SqlNull THEN SelectCountry(tbl, RowsByChatroom(tbl, c))
                 ELSE {SqlNull}
        second == IF x # SqlNull THEN SelectCountry(tbl, RowsByExternalId(tbl, x))
                  ELSE {SqlNull}
    IN (first \ {SqlNull}) \cup (IF SqlNull \in first THEN second ELSE {})

\* the store_message task of a helpdesk delivery runs its upsert
StoreMessageTask ==
    \E b \in ChatwootBodies :
        /\ Len(users) < MaxUsers
        /\ users' = StoreMessageUpsert(users, b)
        /\ uop' = [op |-> "store_message", body |-> b, result |-> SqlNull]
        /\ UNCHANGED offUsers

\* the set_user_country task of a delivery runs its upsert
SetUserCountryTask ==
    \E b \in ChatwootBodies \cup TelegramBodies :
        /\ Len(users) < MaxUsers
        /\ users' = SetCountryUpsert(users, b)
        /\ uop' = [op |-> "set_user_country", body |-> b, result |-> SqlNull]
        /\ UNCHANGED offUsers

\* a prediction command of a chat looks its country up
GetCountryForChat ==
    \E b \in ChatwootBodies \cup TelegramBodies :
    \E r \in get_country_for_chat(users, HintOf(b)) :
        /\ uop' = [op |-> "get_country_for_chat", body |-> HintOf(b),
                   result |-> r]
        /\ UNCHANGED users
        /\ UNCHANGED offUsers

UsersInit ==
    /\ SchedIdle
    /\ ThreadsIdle
    /\ HooksIdle
    /\ AiIdle
    /\ FnIdle
    /\ UsersIdle
    /\ ChatIdle

UsersNext ==
    \/ StoreMessageTask
    \/ SetUserCountryTask
    \/ GetCountryForChat

SpecUsers == UsersInit /\ [][UsersNext]_vars

\* ============================================================ push claims
\* the slot a tick at time t falls in for user u, and its ledger key
SlotType(t, u) ==
    IF IsSlot(t, UserCountry(u), YesterdayHour) THEN "yesterday" ELSE "pick"
SlotKey(t, u) == Key(u, t, SlotType(t, u))

\* instance i is through with user u in this tick: its claim got an answer
\* from the store and, if it won, its digest went to the sink
Settled(i, u) == out[i][u] \in {"false", "sent"}

BothSettled(u) ==
    /\ now_utc[1] = now_utc[2]
    /\ Settled(1, u)
    /\ Settled(2, u)

\* C1: two scheduler instances that claim the same (user, local date, type)
\* in concurrent ticks, the store answering both: exactly one claim returns
\* true, the ledger holds exactly one row for the key and the digest went
\* out exactly once, whatever the interleaving.
C1_ExactlyOneClaimWins ==
    \A u \in Users :
        BothSettled(u) =>
            LET k == SlotKey(now_utc[1], u) IN
            /\ Cardinality({i \in Insts : out[i][u] = "sent"}) = 1
            /\ Cardinality({i \in Insts : out[i][u] = "false"}) = 1
            /\ claimTrue[k] = 1
            /\ push_log[k] = 1
            /\ sent[k] = 1

C1_Witness ==
    \E u \in Users :
        /\ BothSettled(u)
        /\ out[1][u] = "false"
        /\ out[2][u] = "sent"
        /\ push_log[SlotKey(now_utc[1], u)] = 1

\* C2: main.py's scheduler never sends the same (user, local date, type)
\* digest more than once, whatever the interleaving of two instances.
C2_MainSendsAtMostOnce == \A k \in AllKeys : sent[k] <= 1

\* the local day of user u on which the observation starts, and whether that
\* day is over for every instance
FirstDay(u) == LocalDate(StartTime, UserCountry(u))
DayOver(u) ==
    /\ \A i \in Insts : pc[i] = "sleep"
    /\ \A i \in Insts : LocalDate(now_utc[i], UserCountry(u)) > FirstDay(u)

\* C3: for every user and every local day the loop runs through, each of
\* the two digests is claimed and sent exactly once, however long the ticks
\* take (stated for runs in which no store operation raised).
C3_ExactlyOncePerDay ==
    \A u \in Users : \A ty \in PushTypes :
        (DayOver(u) /\ ~storeErr) =>
            /\ claimTrue[<<u, FirstDay(u), ty>>] = 1
            /\ sent[<<u, FirstDay(u), ty>>] = 1

PushPcs == {"y_push", "p_push"}

\* C4: a digest is computed and sent only by an instance whose claim for
\* that user and slot returned true in the same tick; an instance whose
\* claim returned false (row present, or the store raised) does not go on
\* to the push, and nothing is computed or sent for it.
C4_PushOnlyAfterClaim ==
    [][\A i \in Insts :
        /\ (pc'[i] \in PushPcs /\ pc'[i] # pc[i]) =>
               /\ out'[i][cur[i]] = "true"
               /\ claimTrue'[KeyOf(i, SlotType(now_utc[i], cur[i]))]
                    = claimTrue[KeyOf(i, SlotType(now_utc[i], cur[i]))] + 1
        /\ (out'[i] # out[i] /\ out'[i][cur[i]] \in {"false", "raised"}) =>
               /\ pc'[i] \notin PushPcs
               /\ computed' = computed
               /\ sent' = sent
        /\ (pc'[i] # pc[i] /\ (computed' # computed \/ sent' # sent)) =>
               /\ pc[i] \in PushPcs
               /\ out[i][cur[i]] = "true"
      ]_vars

C4_Witness ==
    \E i \in Insts : \E u \in Users :
        /\ out[i][u] = "raised"
        /\ \E j \in Insts : out[j][u] = "sent" /\ now_utc[j] = now_utc[i]
        /\ sent[SlotKey(now_utc[i], u)] = 1

\* ========================================================== thread claims
\* ensure_agent_thread of worker w has returned (to forward_*_to_agent)
Returned(w) == tpc[w] = "post"

TheRow(pair) == agent_threads[LatestActive(agent_threads, pair)]

\* the oldest row of the pair
OldRow(pair) ==
    agent_threads[CHOOSE n \in RowsOf(agent_threads, pair) :
                      \A m \in RowsOf(agent_threads, pair) : n <= m]

\* w ran as the first call for a pair without rows, nothing failing
FirstCall(w) ==
    /\ Returned(w) /\ ~overlapped /\ ~call[w].err
    /\ call[w].rows0 = 0

\* w ran as a later call, within the TTL of the one row of its pair
SecondCall(w) ==
    /\ Returned(w) /\ ~overlapped /\ ~call[w].err
    /\ call[w].rows0 = 1
    /\ fnow[w] < OldRow(wpair[w]).started_at + GetThreadTtl(wpair[w][1])

\* C5: with no row for the pair, run one after the other within the TTL and
\* nothing failing, the first ensure_agent_thread creates one remote thread
\* and inserts one row; the second returns the same remote id, creates and
\* inserts nothing and leaves expires_at no earlier than it was.
C5_CreateThenReuse ==
    \A w \in Workers :
        /\ FirstCall(w) =>
              /\ call[w].find = "absent"
              /\ call[w].createOut = "ok"
              /\ call[w].inserted = 1
              /\ Cardinality(RowsOf(agent_threads, wpair[w])) = 1
              /\ call[w].ret = TheRow(wpair[w]).agent_thread_id
              /\ remote[call[w].ret] = wpair[w]
        /\ SecondCall(w) =>
              /\ call[w].find = "found"
              /\ call[w].createOut = "none"
              /\ call[w].inserted = 0
              /\ Cardinality(RowsOf(agent_threads, wpair[w])) = 1
              /\ call[w].ret = TheRow(wpair[w]).agent_thread_id
              /\ call[w].expAfter >= call[w].expBefore
              /\ TheRow(wpair[w]).expires_at = call[w].expAfter

C5_Witness ==
    \E w \in Workers :
        /\ SecondCall(w)
        /\ ncalls = 2
        /\ call[w].ret = 1
        /\ Len(remote) = 1
        /\ call[w].expAfter > call[w].expBefore

\* C6: an id whose expiry an ensure_agent_thread call has observed is never
\* again returned by find_active_thread, whatever calls follow or were in
\* flight.
C6_RetiredNeverReturned ==
    \A p \in Pairs : \A t \in retired :
        FindActive(agent_threads, p, clock, FALSE) # t

\* C7: find_active_thread never returns (and ensure_agent_thread never
\* reuses) a thread whose age has reached the maximum age, however often
\* it was renewed, and no step changes a row's started_at.
C7_HardLifetimeCap ==
    [][/\ \A w \in Workers :
            (tpc[w] = "find" /\ tpc'[w] = "touch") =>
                clock - agent_threads[RowOfId(agent_threads, tid'[w])].started_at
                    < ThreadMaxAgeDays * ThreadDay
       /\ \A n \in DOMAIN agent_threads :
            agent_threads'[n].started_at = agent_threads[n].started_at
      ]_vars

C7_Witness ==
    \E w \in Workers :
        /\ tpc[w] = "create"
        /\ call[w].find = "absent"
        /\ fnow[w] = clock
        /\ LatestActive(agent_threads, wpair[w]) # 0
        /\ TheRow(wpair[w]).expires_at > clock
        /\ TheRow(wpair[w]).last_activity_at > TheRow(wpair[w]).started_at
        /\ clock - TheRow(wpair[w]).started_at >= ThreadMaxAgeDays * ThreadDay

\* C8: two ensure_agent_thread calls for the same pair, both begun with no
\* row for it and nothing failing, create one remote thread between them
\* and return the same id.
C8_OneThreadForTwoCalls ==
    \A a, b \in Workers :
        (/\ a # b
         /\ Returned(a) /\ Returned(b)
         /\ wpair[a] = wpair[b]
         /\ call[a].rows0 = 0 /\ call[b].rows0 = 0
         /\ ~call[a].err /\ ~call[b].err)
        => /\ call[a].ret = call[b].ret
           /\ Cardinality({w \in {a, b} : call[w].createOut = "ok"}) = 1

Creating(w) == call[w].createOut # "none"

\* C9 as stated: in a sequential execution the remote creation is called
\* and a row inserted only if, when the call looked, no row of the pair was
\* active, unexpired and within the maximum age -- store failures included.
C9_CreateOnlyWithoutLiveRow ==
    \A w \in Workers :
        (~overlapped /\ (Creating(w) \/ call[w].inserted = 1)) => ~call[w].live

\* C9 as amended: ... only if find_active_thread returned no thread, that is
\* its store read failed or no row of the pair was active, unexpired and
\* within the maximum age.
C9_CreateOnlyWhenFindFoundNone ==
    \A w \in Workers :
        (~overlapped /\ (Creating(w) \/ call[w].inserted = 1)) =>
            (call[w].find = "raised" \/ (call[w].find = "absent" /\ ~call[w].live))

C9_Witness ==
    \E w \in Workers :
        /\ ~overlapped
        /\ call[w].find = "raised"
        /\ call[w].live
        /\ call[w].createOut = "ok"
        /\ call[w].inserted = 1

CreateFailures == {"no_url", "non2xx", "no_id", "exception"}

StoreRaisedIn(w) ==
    \/ tpc[w] = "touch" /\ tpc'[w] # "touch" /\ call'[w].touchErr
    \/ tpc[w] = "insert" /\ tpc'[w] # "insert" /\ call'[w].inserted = 0

\* C11 (as claimed): when the store raises during _touch_thread or during
\* the insert of the new row, the rows stay as they were and
\* ensure_agent_thread returns no thread id to the forwarding task
C11_StoreErrorYieldsNoThread ==
    [][\A w \in Workers :
          StoreRaisedIn(w) =>
              /\ agent_threads' = agent_threads
              /\ call'[w].ret = None]_vars

\* ------------------------------------------------------------------ C12
\* the step of worker w is find_active_thread
FindStep(w) == tpc[w] = "find" /\ tpc'[w] # "find"

\* C12: find_active_thread leaves every agent_threads row as it was,
\* whatever it returns (found, not found, expired, over the maximum age,
\* store error)
C12_FindIsReadOnly ==
    [][\A w \in Workers : FindStep(w) => agent_threads' = agent_threads]_vars

\* a probe has just answered "no thread" for a chat whose latest row has
\* expired or is over the maximum age
C12_Witness ==
    \E w \in Workers :
        /\ tpc[w] = "create"
        /\ call[w].find = "absent"
        /\ RowsOf(agent_threads, wpair[w]) # {}
        /\ \E n \in RowsOf(agent_threads, wpair[w]) :
               agent_threads[n].expires_at <= fnow[w]

\* ========================================================= webhook claims
\* the delivery is an inbound message, not a keyboard callback or another
\* event
IsMessage(r) == r.kind \in {"message_created", "message"}

\* the text is one of the fixed intents
MatchesIntent(text) ==
    \/ is_start_command(text)
    \/ is_help_command(text)
    \/ is_ai_pick_command(text)
    \/ is_ai_history_command(text)
    \/ is_ai_yesterday_command(text)
    \/ normalize_country(text) \in {"PH", "US"}

\* the forwarding task of the delivery is scheduled, running or has run
ForwardActive ==
    \/ \E i \in DOMAIN tasks : tasks[i] \in Forwards
    \/ eff.forwards = 1
    \/ \E w \in Workers : tpc[w] # "idle"

\* ------------------------------------------------------------------ C13
\* C13: on both webhooks a message is handed to the forwarding task, and so
\* reaches ensure_agent_thread and the agent, only if its text is non-empty
\* and matches none of /start, /help, /ai_pick, /ai_history, /ai_yesterday
\* or a country choice
C13_ForwardOnlyFreeForm ==
    ForwardActive =>
        /\ IsMessage(hreq)
        /\ Strip(hreq.text) # <<>>
        /\ ~MatchesIntent(hreq.text)

\* a text with a command that is not at its start has been posted to the
\* agent on a thread
C13_Witness ==
    /\ hreq.platform = "telegram"
    /\ hreq.text = T_late_cmd
    /\ call[1].post = "thread"

\* ------------------------------------------------------------------ C14
\* a helpdesk message_created event that is not an incoming message
Echo(r) ==
    /\ r.platform = "chatwoot"
    /\ r.kind = "message_created"
    /\ r.mtype # "incoming"

\* C14: a helpdesk message_created event whose message type is not incoming
\* has no effect: no task, no store write, no outbound message, no
\* escalation, no thread row, no remote thread and no agent call
C14_EchoHasNoEffect ==
    [][Echo(hreq') =>
          /\ tasks' = <<>>
          /\ eff' = NoEff
          /\ chunks' = <<>>
          /\ agent_threads' = agent_threads
          /\ remote' = remote
          /\ \A w \in Workers : tpc'[w] = "idle" /\ call'[w] = NoCall]_vars

\* an outgoing free-form message with every id present was delivered
C14_Witness ==
    /\ Echo(hreq)
    /\ hreq.text = T_hi
    /\ hreq.ids /\ hreq.chat /\ hreq.sender

\* ------------------------------------------------------------------ C15
\* an incoming user message on either platform
IncomingMessage(r) ==
    \/ r.platform = "chatwoot" /\ r.kind = "message_created" /\ r.mtype = "incoming"
    \/ r.platform = "telegram" /\ r.kind = "message"

\* C15 (as claimed): once the tasks of an incoming user message have run,
\* on either platform, a store_message task has run for it
C15_EveryIncomingMessageStored ==
    (IncomingMessage(hreq) /\ tasks = <<>>) => eff.storeTasks = 1

\* ------------------------------------------------------------------ C16
\* C16 (as claimed): every text passed to send_chatwoot_reply for an
\* /ai_pick result or an agent reply has at most 3000 characters
C16_ChunksAtMostLimit ==
    \A i \in DOMAIN chunks : ChunkLen(chunks[i]) <= ChunkLimit

\* ================================================= prediction-query claims
\* the token is one of 3/home/h, 1/draw/d, 0/away/a, in any letter case
IsOutcomeToken(v) == v # Null /\ OutcomeOf(Norm(v)) # "other"

\* ------------------------------------------------------------------ C17
\* C17 (as claimed): for a predicted and an actual token that are both
\* outcome codes or labels, the success marker of is_prediction_success (in
\* the history digest) and the SQL success marker (in the yesterday digest)
\* is set iff the two tokens stand for the same outcome
C17_SuccessIffSameOutcome ==
    ares.op \in {"history", "yesterday"} =>
        \A i \in DOMAIN ares.rows :
            LET r == ares.rows[i] IN
            (IsOutcomeToken(r.predict_winner) /\ IsOutcomeToken(r.result)) =>
                ((r.success = 1) <=>
                 (OutcomeOf(Norm(r.predict_winner)) = OutcomeOf(Norm(r.result))))

\* ------------------------------------------------------------------ C18
\* the records calc_accuracy was given whose kickoff is in its window
Counted == Filtered(ares.rows, ares.start, ares.end)

\* C18: calc_accuracy returns 0.0 when no record passes its filter, and
\* otherwise a percentage between 0 and 100 that is 100 * successes / total
\* to the nearest tenth
C18_AccuracyIsRoundedRatio ==
    ares.op = "calc_accuracy" =>
        LET total == Len(Counted)
            success == Successes(Counted)
            d == ares.acc * total - 1000 * success
        IN IF total = 0 THEN ares.acc = 0
           ELSE /\ 0 <= ares.acc /\ ares.acc <= 1000
                /\ 2 * d <= total
                /\ 2 * (0 - d) <= total

\* calc_accuracy has returned 66.7 for two successes among three records
C18_Witness ==
    /\ ares.op = "calc_accuracy"
    /\ Len(Counted) = 3
    /\ Successes(Counted) = 2
    /\ ares.acc = 667

\* calc_accuracy has returned 0.0 for records that are all outside the
\* window or without a kickoff
C18_WitnessEmpty ==
    /\ ares.op = "calc_accuracy"
    /\ Len(ares.rows) = MaxRows
    /\ Len(Counted) = 0
    /\ ares.acc = 0

\* ------------------------------------------------------------------ C19
\* the records the claim counts: kickoff in [start, end), a null bound
\* being open, and a non-null actual outcome
ClaimedSet ==
    SelectSeq(ares.rows,
              LAMBDA r : /\ r.fixture_date # NullDate
                         /\ (ares.start = NullDate \/ ares.start <= r.fixture_date)
                         /\ (ares.end = NullDate \/ r.fixture_date < ares.end)
                         /\ r.result # Null)

C20_ShownAccuracyMatchesRows ==
    (ares.op = "yesterday" /\ ares.text = "digest") =>
        LET marks == [i \in DOMAIN ares.rows |-> ares.rows[i].success] IN
        ares.acc = SqlTenths(SumSeq(marks), Len(marks))

\* ===================================================== pure-function claims
\* C21: for every instant and every offset in hours, the day start computed
\* by the prediction queries is the UTC instant of local midnight: it is at
\* most the instant, less than 24 hours before it, and the start plus the
\* offset is on a day boundary
C21_DayStartIsLocalMidnight ==
    fin.fn = "today_start_utc" =>
        LET t == fin.args[1]
            off == fin.args[2]
        IN /\ fout <= t
           /\ t < fout + MinutesPerDay
           /\ (fout + off * MinutesPerHour) % MinutesPerDay = 0

\* at 23:30 UTC with offset +8 the day started at 16:00 UTC of the same day
C21_Witness ==
    /\ fin.fn = "today_start_utc"
    /\ fin.args = <<23 * MinutesPerHour + MinutesPerHour \div 2, 8>>
    /\ fout = 16 * MinutesPerHour

\* C22: the pick digest, on demand and scheduled, lists only fixtures whose
\* kickoff is in [next local midnight, next local midnight + 24h)
C22_DigestOnlyNextLocalDay ==
    (fin.fn \in {"ai_pick_reply", "ai_pick_text_for_country", "_ai_pick_reply"}
     /\ fout = TRUE) =>
        LET t == fin.args[1]
            off == fin.args[2]
            k == fin.args[3]
            midnight == CHOOSE m \in (t + 1) .. (t + MinutesPerDay) :
                            (m + off * MinutesPerHour) % MinutesPerDay = 0
        IN midnight <= k /\ k < midnight + MinutesPerDay

\* the text with the blanks around it removed, said without computing it: the
\* middle of a split of the text into blanks, a part that neither starts nor
\* ends with a blank, and blanks
IsTrimOf(m, t) ==
    \E i \in 0 .. Len(t) : \E j \in i .. Len(t) :
        /\ m = SubSeq(t, i + 1, j)
        /\ \A n \in 1 .. i : t[n] = Blank
        /\ \A n \in (j + 1) .. Len(t) : t[n] = Blank
        /\ (m # <<>> => m[1] # Blank /\ m[Len(m)] # Blank)

\* the trimmed, lowercased text starts with the command
StartsWithCommand(t, cmd) ==
    \E m \in {SubSeq(t, a, b) : a \in 1 .. Len(t) + 1, b \in 0 .. Len(t)} :
        /\ IsTrimOf(m, t)
        /\ Len(m) >= Len(cmd)
        /\ \A n \in 1 .. Len(cmd) : Lower(m[n]) = cmd[n]

\* C25: each command predicate is true exactly when the trimmed, lowercased
\* text starts with the command; empty or null text matches no command
C25_CommandIffPrefix ==
    fin.fn = "command_predicates" =>
        LET t == fin.args[1] IN
        IF t = Null \/ t = <<>>
        THEN \A c \in DOMAIN fout : ~fout[c]
        ELSE /\ fout.start <=> StartsWithCommand(t, CmdStart)
             /\ fout.help <=> StartsWithCommand(t, CmdHelp)
             /\ fout.ai_pick <=> StartsWithCommand(t, CmdAiPick)
             /\ fout.ai_history <=> StartsWithCommand(t, CmdAiHistory)
             /\ fout.ai_yesterday <=> StartsWithCommand(t, CmdAiYesterday)

\* "/AI_PICK today" is recognized as ai_pick, and as nothing else
C25_Witness ==
    /\ fin.fn = "command_predicates"
    /\ fin.args = <<T_ai_pick_today>>
    /\ fout.ai_pick
    /\ ~fout.start /\ ~fout.help /\ ~fout.ai_history /\ ~fout.ai_yesterday

\* the countries' names in English, lowercased
EnPH == <<"p", "h", "i", "l", "i", "p", "p", "i", "n", "e", "s">>
EnUS == <<"u", "n", "i", "t", "e", "d", " ", "s", "t", "a", "t", "e", "s">>

\* C26: normalize_country returns PH for every text whose trimmed, lowercased
\* form contains the Philippines' name in Chinese or in English or the PH
\* flag, US likewise, and none for every other text
C26_CountryIffNameOrFlag ==
    fin.fn = "normalize_country" =>
        LET n == Norm(fin.args[1])
            ph == Contains(n, ZhPH) \/ Contains(n, EnPH) \/ Contains(n, FlagPH)
            us == Contains(n, ZhUS) \/ Contains(n, EnUS) \/ Contains(n, FlagUS)
        IN /\ ph => fout = "PH"
           /\ (us /\ ~ph) => fout = "US"
           /\ (~ph /\ ~us) => fout = NoCountry

\* the maximal separator-free segments of a text with more than blanks in
\* them, as <<first, last>> positions
TagSegments(t) ==
    {sg \in (1 .. Len(t)) \X (1 .. Len(t)) :
        /\ sg[1] <= sg[2]
        /\ \A n \in sg[1] .. sg[2] : t[n] \notin TagSeps
        /\ (sg[1] = 1 \/ t[sg[1] - 1] \in TagSeps)
        /\ (sg[2] = Len(t) \/ t[sg[2] + 1] \in TagSeps)
        /\ \E n \in sg[1] .. sg[2] : t[n] # Blank}

\* two texts equal but for the case of their letters
SameFolded(a, b) ==
    Len(a) = Len(b) /\ \A n \in 1 .. Len(a) : Lower(a[n]) = Lower(b[n])

\* the segments that repeat no earlier segment
FirstSegments(t) ==
    {sg \in TagSegments(t) :
        \A e \in TagSegments(t) :
            e[1] < sg[1] =>
                ~SameFolded(Strip(SubSeq(t, e[1], e[2])),
                            Strip(SubSeq(t, sg[1], sg[2])))}

\* C27: format_tags splits on '/', '|' and ',', drops empty parts, removes
\* case-insensitive duplicates keeping the first occurrence in first-seen
\* order, and emits at most 6 tags; the spec's example gives Over2.5, BTTS,
\* Corners
C27_TagsSplitDedupedCapped ==
    fin.fn = "format_tags" =>
        LET t == StrOr(fin.args[1])
            tags == fout.tags
            firsts == FirstSegments(t)
        IN /\ Len(tags) <= 6
           /\ Len(tags) = Min(6, Cardinality(firsts))
           /\ \A n \in 1 .. Len(tags) :
                \E sg \in firsts :
                    /\ Cardinality({e \in firsts : e[1] < sg[1]}) = n - 1
                    /\ tags[n] = Strip(SubSeq(t, sg[1], sg[2]))
           /\ \A a, b \in 1 .. Len(tags) : a # b => ~SameFolded(tags[a], tags[b])
           /\ (t = T_tags_example =>
                 tags = << <<"O", "v", "e", "r", "2", ".", "5">>,
                           <<"B", "T", "T", "S">>,
                           <<"C", "o", "r", "n", "e", "r", "s">> >>)

\* the example: four parts, one a repeat, three tags
C27_Witness ==
    /\ fin.fn = "format_tags"
    /\ fin.args = <<T_tags_example>>
    /\ Len(fout.tags) = 3
    /\ fout.text = <<"fire", " ", "O", "v", "e", "r", "2", ".", "5",
                     " ", "mid-dot", " ", "B", "T", "T", "S",
                     " ", "mid-dot", " ", "C", "o", "r", "n", "e", "r", "s">>

\* more than six distinct tags were given and six were emitted
C27_WitnessCapped ==
    /\ fin.fn = "format_tags"
    /\ fin.args = <<T_tags_repeat>>
    /\ Len(fout.tags) = 6

\* C28: outbound calls are never retried: post_agent_message makes at most
\* one request to the agent service for a forwarded message, and a failed
\* request (exception, status of 300 or more, empty stream) ends the call
\* with the busy text
C28_AtMostOneAgentRequest ==
    fin.fn = "post_agent_message" =>
        /\ fout.requests <= 1
        /\ (fin.args[1] /\ fin.args[3] \in {"raise", "non2xx"}) =>
               fout.result = "busy"
        /\ (fin.args[1] /\ fin.args[2] = "runs_stream" /\ fin.args[3] = "empty") =>
               fout.result = "busy"

\* ================================================= handler and ledger claims
\* C29: on either platform and for every intent, the handler accesses no
\* store and calls no outbound API before it returns its response
C29_HandlerDefersAllWork ==
    [][(hreq = NoReq /\ hreq' # NoReq) =>
          (eff'.queries = 0 /\ eff'.inline = 0)]_vars

\* C30: push_log only grows: no step updates or deletes a ledger row, so a
\* (user, date, type) entry, once present, is present in every later state
C30_LedgerOnlyGrows ==
    [][\A k \in AllKeys : push_log'[k] >= push_log[k]]_vars

\* an entry is still present after another one was inserted
C30_Witness ==
    \E k1, k2 \in AllKeys : k1 # k2 /\ push_log[k1] > 0 /\ push_log[k2] > 0

\* ====================================================== users-table claims
\* C23: an upsert of store_message or set_user_country whose incoming name
\* (or chatroom id) is null leaves the stored name (or chatroom id) of the
\* row of its external id unchanged
C23_NullNeverReplacesStored ==
    [][uop'.op \in {"store_message", "set_user_country"} =>
          \A i \in DOMAIN users :
              (users[i].external_id # SqlNull
               /\ users[i].external_id = uop'.body.sender_id) =>
                  /\ (uop'.body.name = SqlNull =>
                         users'[i].username = users[i].username)
                  /\ (uop'.body.chat_id = SqlNull =>
                         users'[i].chatroom_id = users[i].chatroom_id)]_vars

\* C24: once a country choice of a chat has been processed, on either
\* platform, a prediction command of that chat resolves the chosen country
C24_ChoiceResolvedForChat ==
    [][(uop'.op = "set_user_country"
        /\ extract_chatroom_id(HintOf(uop'.body)) # SqlNull) =>
          get_country_for_chat(users', HintOf(uop'.body))
              = {normalize_country(uop'.body.text)}]_vars

\* C31: after any sequence of store_message and set_user_country statements,
\* every users row has a non-null external id and no two rows share one,
\* also when the body carries no sender id
C31_ExternalIdNonNullUnique ==
    \A i \in DOMAIN users :
        /\ users[i].external_id # SqlNull
        /\ \A j \in DOMAIN users :
              users[j].external_id = users[i].external_id => j = i

\* C32: when the store is unavailable during a prediction query, each of
\* ai_pick_reply, ai_history_reply and ai_yesterday_reply returns its canned
\* no-data text instead of letting the error leave the function
C32_StoreFailureGivesCannedText ==
    (fin.fn = "prediction_reply"
     /\ (fin.args[2] = "raise" \/ fin.args[3] = "raise")) =>
        fout = "canned"

\* ==================================================== scheduler liveness
\* C33: no failure stops the scheduler: whatever listing, claiming,
\* computing or sending did, the users still to do in a tick are all taken
\* up, the tick ends in its sleep, and the sleep ends in the next tick
C33_SchedulerNeverStops ==
    \A i \in Insts :
        /\ (pc[i] # "sleep") ~> (pc[i] = "sleep")
        /\ (todo[i] # <<>>) ~> (todo[i] = <<>>)
        /\ (pc[i] = "sleep" /\ wake[i] <= endTime) ~> (pc[i] = "loop")

\* a store error was met in a tick and the instance has gone to sleep since
C33_Witness ==
    \E i \in Insts :
        /\ storeErr
        /\ pc[i] = "sleep"
        /\ wake[i] > now_utc[i]
        /\ \E u \in Users : out[i][u] \in {"raised", "failed"}

\* ====================================================== forwarding claims
\* a forwarding task has passed its placeholder: it is in
\* ensure_agent_thread, in post_agent_message, or has delivered the reply
PastPlaceholder == hreq # NoReq /\ eff.forwards = 1

\* the body names where a reply goes: integer account and conversation ids
\* on the helpdesk platform, a chat id on the bot platform
HasDestination(r) == IF r.platform = "chatwoot" THEN r.ids ELSE r.chat

C34_WitnessReply ==
    /\ PastPlaceholder
    /\ eff.wait = 1
    /\ eff.replies > 0

\* ======================================================== window claims
\* the UTC instant of the last local midnight at or before an instant, said
\* without computing it
LocalMidnightBefore(t, off) ==
    CHOOSE m \in (t - MinutesPerDay + 1) .. t :
        (m + off * MinutesPerHour) % MinutesPerDay = 0

C35_WitnessStart ==
    /\ fin.fn = "yesterday_window"
    /\ fin.args[3] = LocalMidnightBefore(fin.args[1], fin.args[2]) - MinutesPerDay
    /\ fout.sql /\ fout.py

\* ===================================================== isolation claims
\* the pair a row belongs to
PairOfRow(row) == <<row.platform, row.chatroom_id>>

\* the step renews or ends the lease of row n
LeaseChanged(n) ==
    \/ agent_threads'[n].expires_at # agent_threads[n].expires_at
    \/ agent_threads'[n].last_activity_at # agent_threads[n].last_activity_at

\* C36: the thread id a task holds or returns for a (platform, handle) pair
\* was created for that pair, and a step taken for one pair changes neither
\* expires_at nor last_activity_at of a row of another pair
C36_ThreadsIsolatedByPair ==
    [][/\ \A w \in Workers :
            /\ tid'[w] # None => remote'[tid'[w]] = wpair'[w]
            /\ call'[w].ret # None => remote'[call'[w].ret] = wpair'[w]
       /\ \A n \in DOMAIN agent_threads :
            LeaseChanged(n) =>
                \E w \in Workers : /\ tpc'[w] # tpc[w]
                                   /\ wpair[w] = PairOfRow(agent_threads[n])
       /\ \A n \in DOMAIN agent_threads' :
            remote'[agent_threads'[n].agent_thread_id] = PairOfRow(agent_threads'[n])
      ]_vars

\* both pairs have a live row of their own, and a task of one pair has
\* renewed its row while the other pair's row kept its lease
C36_Witness ==
    /\ wpair[1] # wpair[2]
    /\ \E n, m \in DOMAIN agent_threads :
        /\ PairOfRow(agent_threads[n]) = wpair[1]
        /\ PairOfRow(agent_threads[m]) = wpair[2]
        /\ agent_threads[n].last_activity_at > agent_threads[n].started_at
        /\ agent_threads[m].last_activity_at = agent_threads[m].started_at
        /\ agent_threads[m].started_at < agent_threads[n].last_activity_at

\* the forwarding task of the delivery has returned
ForwardReturned ==
    /\ hreq # NoReq
    /\ eff.forwards = 1
    /\ tasks = <<>> \/ Head(tasks) \notin Forwards

\* C37: a forwarding task that sent the "please wait" placeholder has sent
\* at least one further message to the same chat by the time it returns
C37_PlaceholderIsFollowedByReply ==
    (ForwardReturned /\ eff.wait > 0) => eff.replies > 0

\* ==================================================== shared-chat claims
\* the digests of a type handed to the sink for the chat the rows share, on
\* a local day
ChatDigests(d, ty) == sent[<<1, d, ty>>] + sent[<<2, d, ty>>]

\* C38: a chat handle receives at most one digest of each push type per
\* local calendar day, also when several users rows share the handle and
\* the order of their updated_at changes between ticks or instances
C38_OneDigestPerChat ==
    \A d \in AllDates : \A ty \in PushTypes : ChatDigests(d, ty) <= 1

\* ======================================================= chunking claims
\* the ranges, in the order sent, cover the characters 1..n once each with
\* no gap, overlap or reordering
CoversInOrder(cs, n) ==
    IF cs = <<>> THEN n = 0
    ELSE /\ cs[1].from = 1
         /\ cs[Len(cs)].to = n
         /\ \A i \in 1 .. Len(cs) - 1 : cs[i + 1].from = cs[i].to + 1

\* C39: for every reply length the chunking loop ends, sends its chunks in
\* order, none of them empty, and the chunks put together are the text
C39_ChunksRebuildTheText ==
    fin.fn = "chunk_reply" =>
        LET n == fin.args[1]
            loop == fout.loop
        IN /\ CoversInOrder(loop, n)
           /\ \A i \in DOMAIN loop :
                ChunkLen(loop[i]) >= 1 /\ ChunkLen(loop[i]) <= ChunkLimit
           /\ Len(loop) = (n + ChunkLimit - 1) \div ChunkLimit
           /\ CoversInOrder(fout.sent, n)
           /\ n > ChunkOver => fout.sent = loop

\* a text one character longer than two chunks went out as three chunks
C39_Witness ==
    /\ fin.fn = "chunk_reply"
    /\ fin.args[1] = 2 * ChunkLimit + 1
    /\ Len(fout.sent) = 3
    /\ ChunkLen(fout.sent[3]) = 1

\* ================================================= stored-country claims
\* C40: the country of a stored users row changes only in a step of
\* set_user_country, for the sender of that step and to the country chosen;
\* store_message and the country lookup of the prediction queries leave
\* every row's country as it was, and no row is removed
C40_CountryChangesOnlyByChoice ==
    [][\A i \in DOMAIN users :
          /\ i \in DOMAIN users'
          /\ users'[i].external_id = users[i].external_id
          /\ users'[i].country # users[i].country =>
                /\ uop'.op = "set_user_country"
                /\ ExternalId(uop'.body) = users[i].external_id
                /\ users'[i].country = normalize_country(uop'.body.text)
      ]_vars

\* a plain message of a sender was stored after that sender chose a
\* country, and the country is still there
C40_Witness ==
    /\ uop.op = "store_message"
    /\ \E i \in DOMAIN users :
        /\ users[i].external_id = ExternalId(uop.body)
        /\ users[i].country # SqlNull
====
